---- MODULE Spec2Model ----
(***************************************************************************)
(* Magina: migration of container images between registries in three      *)
(* stages (export, convert, import) and their composition, the transfer.  *)
(* The model follows the Go sources: one worker goroutine per stage and   *)
(* per transfer, unbuffered result channels (a send and its receive are   *)
(* one step), a command handler that drains the top-level stream.         *)
(* Strings that the code inspects (image references, exclusion patterns)  *)
(* are sequences of one-character strings.                                 *)
(***************************************************************************)
EXTENDS Integers, Sequences, FiniteSets, TLC

VARIABLES
    op,           \* the command that was invoked (cobra sub-command)
    block,        \* config.Blocks[0], the Block handed to the handler
    options,      \* the flags: --resume, --clean-on-error
    canceled,     \* the handlers' context (h.ctx) is done
    cleanups,     \* history: images a deletion was attempted for, in order
    env,          \* the hosts whose _USERNAME and _PASSWORD variables are set
    file,         \* the configuration file given with -c
    runs,         \* history: outcomes of the runs over file, in order
    credentials,  \* Session.credentials, host -> *Credentials
    heap,         \* the Credentials structs allocated so far, by pointer
    calls,        \* history: calls of the session's methods, in order
    callers,      \* the goroutines calling the session: where each one is
    mu,           \* Session.mu: the goroutines that hold it, and how
    resolved,     \* history: hosts GetCredentials was called with, in order
    cpc,          \* position of the command handler
    tpc,          \* position of the TransferImages goroutine
    held,         \* the TransferResult the transfer goroutine is sending
    stage,        \* the stage whose worker was started last
    spc,          \* position of that stage's goroutine
    idx,          \* index of the mapping the stage loop is at
    pending,      \* the result the stage goroutine is sending
    stageOut,     \* history: results sent on the stage channels, in order
    work,         \* history: per-image work done by the stages, in order
    out,          \* results received by the command handler, in order
    exitCode      \* the process exit status, -1 while the command runs

vars == <<op, block, options, canceled, cleanups, env, file, runs,
          credentials, heap, calls, callers, mu, resolved, cpc, tpc, held,
          stage, spc, idx,
          pending, stageOut, work, out, exitCode>>

----------------------------------------------------------------------------
(* Bounds of the model *)

MaxMappings == 2
MaxExclusions == 1

(* Strings *)

EmptyStr == <<>>
MappingPool ==
    { [Source |-> <<"a">>, Destination |-> <<"b">>],
      [Source |-> <<"a", "b">>, Destination |-> <<"a", "b">>] }
Patterns == { <<"b">>, <<"!", "b">>, <<"!">>, <<>> }
Hosts == { "", "r1", "r2" }

SeqsUpTo(S, n) == UNION { [1..k -> S] : k \in 0..n }

Contains(s, sub) ==
    \E i \in 0..(Len(s) - Len(sub)) : SubSeq(s, i + 1, i + Len(sub)) = sub

HasPrefix(s, prefix) ==
    Len(prefix) <= Len(s) /\ SubSeq(s, 1, Len(prefix)) = prefix

----------------------------------------------------------------------------
(* Data model *)

PhaseExport == "EXPORT"
PhaseConvert == "CONVERT"
PhaseImport == "IMPORT"
NoPhase == ""

Blocks ==
    { [SourceRegistry |-> [Host |-> s],
       DestinationRegistry |-> [Host |-> d],
       ImageMappings |-> m,
       Exclusions |-> e] :
         s \in {"", "r1"}, d \in Hosts,
         m \in SeqsUpTo(MappingPool, MaxMappings),
         e \in SeqsUpTo(Patterns, MaxExclusions) }

NoResult ==
    [Phase |-> "none", SourceImage |-> EmptyStr, LocalImage |-> EmptyStr,
     DestinationImage |-> EmptyStr, Error |-> "nil"]

Result(phase, source, local, destination, err) ==
    [Phase |-> phase, SourceImage |-> source, LocalImage |-> local,
     DestinationImage |-> destination, Error |-> err]

----------------------------------------------------------------------------
(* Block validation *)

validateTransferBlockNoDestination(b) ==
    IF b.SourceRegistry.Host = "" THEN "validation"
    ELSE IF Len(b.ImageMappings) = 0 THEN "validation"
    ELSE "nil"

validateTransferBlock(b) ==
    IF b.SourceRegistry.Host = "" THEN "validation"
    ELSE IF b.DestinationRegistry.Host = "" THEN "validation"
    ELSE IF Len(b.ImageMappings) = 0 THEN "validation"
    ELSE "nil"

validateExportBlockNoHost(b) ==
    IF Len(b.ImageMappings) = 0 THEN "validation" ELSE "nil"

validateExportBlock(b) ==
    IF b.SourceRegistry.Host = "" THEN "validation"
    ELSE IF Len(b.ImageMappings) = 0 THEN "validation"
    ELSE "nil"

validateConvertBlock(b) ==
    IF b.DestinationRegistry.Host = "" THEN "validation"
    ELSE IF Len(b.ImageMappings) = 0 THEN "validation"
    ELSE "nil"

validateImportBlock(b) ==
    IF b.DestinationRegistry.Host = "" THEN "validation"
    ELSE IF Len(b.ImageMappings) = 0 THEN "validation"
    ELSE "nil"

validateStageBlock(st, b) ==
    CASE st = PhaseExport -> validateExportBlock(b)
      [] st = PhaseConvert -> validateConvertBlock(b)
      [] st = PhaseImport -> validateImportBlock(b)

----------------------------------------------------------------------------
(* Exclusion matching, one rule per stage *)

ExportIsExcludedExact(image, exclusions) ==
    \E i \in 1..Len(exclusions) : image = exclusions[i]

ExportIsExcluded(image, exclusions) ==
    \E i \in 1..Len(exclusions) : Contains(image, exclusions[i])

ConvertIsExcludedPrefix(image, exclusions) ==
    \E i \in 1..Len(exclusions) :
        /\ HasPrefix(exclusions[i], <<"!">>)
        /\ HasPrefix(image, SubSeq(exclusions[i], 2, Len(exclusions[i])))

ConvertIsExcluded(image, exclusions) ==
    \E i \in 1..Len(exclusions) :
        /\ HasPrefix(exclusions[i], <<"!">>)
        /\ Contains(image, SubSeq(exclusions[i], 2, Len(exclusions[i])))

ImportIsExcludedExact(image, exclusions) ==
    \E i \in 1..Len(exclusions) : image = exclusions[i]

ImportIsExcluded(image, exclusions) ==
    \E i \in 1..Len(exclusions) : Contains(image, exclusions[i])

StageSkipsFirstPatternOnly(st, mapping, exclusions) ==
    LET first == IF exclusions = <<>> THEN <<>> ELSE <<exclusions[1]>>
    IN  CASE st = PhaseExport -> ExportIsExcluded(mapping.Source, first)
          [] st = PhaseConvert -> ConvertIsExcluded(mapping.Source, first)
          [] st = PhaseImport ->
               ImportIsExcluded(mapping.Destination, first)

(* the string each stage's loop hands to its isExcluded *)
StageSkips(st, mapping, exclusions) ==
    CASE st = PhaseExport -> ExportIsExcluded(mapping.Source, exclusions)
      [] st = PhaseConvert -> ConvertIsExcluded(mapping.Source, exclusions)
      [] st = PhaseImport -> ImportIsExcluded(mapping.Destination, exclusions)

----------------------------------------------------------------------------
(* Per-image work.  The registry transport is outside the model: whether  *)
(* the references parse and the registry answers is an input (ok); the    *)
(* transport calls are given h.ctx (remote.WithContext) and fail once it  *)
(* is done (ctxDone).                                                     *)

ImageError(ok, ctxDone) ==
    IF ~ok THEN "image" ELSE IF ctxDone THEN "canceled" ELSE "nil"

exportSingleImage(sourceImage, localImage, ok, ctxDone) ==
    Result(NoPhase, sourceImage, localImage, EmptyStr,
           ImageError(ok, ctxDone))

convertSingleImage(sourceImage, localImage, destinationImage, ok, ctxDone) ==
    Result(NoPhase, sourceImage, localImage, destinationImage,
           ImageError(ok, ctxDone))

importSingleImage(localImage, destImage, ok, ctxDone) ==
    Result(NoPhase, EmptyStr, localImage, destImage, ImageError(ok, ctxDone))

(* the call each stage's loop makes for a mapping *)
StageSingleImage(st, mapping, ok, ctxDone) ==
    CASE st = PhaseExport ->
           exportSingleImage(mapping.Source, mapping.Destination, ok, ctxDone)
      [] st = PhaseConvert ->
           convertSingleImage(mapping.Source, mapping.Source,
                              mapping.Destination, ok, ctxDone)
      [] st = PhaseImport ->
           importSingleImage(mapping.Source, mapping.Destination, ok,
                             ctxDone)

(* local storage addresses the call reads and writes: export stores under *)
(* localImage, convert loads localImage and writes destinationImage,      *)
(* import loads localImage and pushes to the registry.                    *)
StageWork(st, i, r, ctxDone) ==
    [stage |-> st, index |-> i, ctxDone |-> ctxDone,
     localRead  |-> IF st = PhaseExport THEN <<>> ELSE <<r.LocalImage>>,
     localWrite |-> CASE st = PhaseExport -> <<r.LocalImage>>
                      [] st = PhaseConvert -> <<r.DestinationImage>>
                      [] st = PhaseImport -> <<>>,
     failed |-> r.Error # "nil"]

(* what a stage's goroutine does after a result was received: the        *)
(* validation result is followed by return, a per-image result by the    *)
(* next iteration                                                         *)
StageAfterSendStopOnError(r) == IF r.Error # "nil" THEN "closed" ELSE "loop"

StageAfterSendNoDefer(r) ==
    IF r.Error = "validation" THEN "returned" ELSE "loop"

StageAfterSend(r) == IF r.Error = "validation" THEN "closed" ELSE "loop"

(* the images a stage tries to delete after it sent r: the loop bodies of *)
(* ExportImages, ConvertImages and ImportImages end with the send, and    *)
(* options.CleanOnError is read by none of them                           *)
StageCleanup(st, r, cleanOnError) == <<>>

----------------------------------------------------------------------------
(* Credential store (Session) *)

(* what the terminal gives to a prompt: the two lines cannot be read, or *)
(* a user name and a password (as they are after TrimSpace)              *)
InputFail == [readable |-> FALSE, username |-> "", password |-> ""]

InputOf(u) == [readable |-> TRUE, username |-> u, password |-> "p"]

CommandInputs == { InputFail, InputOf("u1") }

(* Session.promptCredentials: the struct it returns; Auth is not set *)
promptCredentials(input) ==
    [Username |-> input.username, Password |-> input.password, Auth |-> ""]

(* the record of one call of a method of the session: what it returned   *)
(* (creds is the pointer, value the struct it pointed to at the return)   *)
(* and how it got there                                                   *)
Call(method, host, hit, prompted, envRead, err, creds, value) ==
    [method |-> method, host |-> host, hit |-> hit, prompted |-> prompted,
     envRead |-> envRead, err |-> err, creds |-> creds, value |-> value]

(* creds, exists := s.credentials[registryURL], under RLock *)
CacheHitNever(cache, registryURL) == FALSE

CacheHit(cache, registryURL) == registryURL \in DOMAIN cache

(* after a miss: creds, err := s.promptCredentials(registryURL); what     *)
(* os.Getenv would give (environment) is not looked at                    *)
ResolveOnMiss(environment, registryURL, input) ==
    [prompted |-> TRUE, envRead |-> FALSE,
     err |-> IF input.readable THEN "nil" ELSE "credentials",
     value |-> promptCredentials(input)]

CacheStoreDropped(cache, registryURL, ptr) == cache

(* s.credentials[registryURL] = creds, under Lock *)
CacheStore(cache, registryURL, ptr) ==
    [h \in DOMAIN cache \cup {registryURL} |->
        IF h = registryURL THEN ptr ELSE cache[h]]

(* Session.GetCredentials run by a single goroutine from call to return:  *)
(* cache hit, else prompt, store and return.  The cache maps a host to a  *)
(* pointer, hp is the heap the structs live in.                           *)
GetCredentials(cache, hp, environment, registryURL, input) ==
    IF CacheHit(cache, registryURL)
    THEN [cache |-> cache, heap |-> hp, err |-> "nil",
          call |-> Call("GetCredentials", registryURL, TRUE, FALSE, FALSE,
                        "nil", cache[registryURL], hp[cache[registryURL]])]
    ELSE LET m == ResolveOnMiss(environment, registryURL, input)
         IN  IF m.err # "nil"
             THEN [cache |-> cache, heap |-> hp, err |-> m.err,
                   call |-> Call("GetCredentials", registryURL, FALSE,
                                 m.prompted, m.envRead, m.err, 0, m.value)]
             ELSE [cache |-> CacheStore(cache, registryURL, Len(hp) + 1),
                   heap |-> Append(hp, m.value),
                   err |-> "nil",
                   call |-> Call("GetCredentials", registryURL, FALSE,
                                 m.prompted, m.envRead, "nil", Len(hp) + 1,
                                 m.value)]

(* Session.Clear: a new, empty map; the structs are not touched *)
ClearWipe(cache, hp) ==
    [cache |-> [h \in {} |-> 0],
     heap |-> [q \in DOMAIN hp |-> promptCredentials(InputFail)]]

Clear(cache, hp) == [cache |-> [h \in {} |-> 0], heap |-> hp]

----------------------------------------------------------------------------
(* Transfer orchestration, three-phase (v = 3) and two-phase (v = 2)     *)
(* TransferImages                                                         *)

NextPhaseImportFirst(v, p) ==
    CASE p = PhaseExport -> PhaseImport
      [] p = PhaseImport -> IF v = 3 THEN PhaseConvert ELSE NoPhase
      [] p = PhaseConvert -> NoPhase

(* the order of the phase blocks in TransferImages; "" ends the run *)
NextPhase(v, p) ==
    CASE p = PhaseExport -> IF v = 3 THEN PhaseConvert ELSE PhaseImport
      [] p = PhaseConvert -> PhaseImport
      [] p = PhaseImport -> NoPhase

(* the tag of the result sent when credential resolution fails *)
CredentialErrorResult(v, side) ==
    Result(IF v = 3 THEN side ELSE NoPhase,
           EmptyStr, EmptyStr, EmptyStr, "credentials")

WrapResultNoError(v, p, r) ==
    Result(p, r.SourceImage, r.LocalImage, r.DestinationImage, "nil")

(* the TransferResult built from a stage result *)
WrapResult(v, p, r) ==
    IF v = 3
    THEN CASE p = PhaseExport ->
                Result(PhaseExport, r.SourceImage, r.LocalImage, EmptyStr,
                       r.Error)
           [] p = PhaseConvert ->
                Result(PhaseConvert, r.SourceImage, r.LocalImage,
                       r.DestinationImage, r.Error)
           [] p = PhaseImport ->
                Result(PhaseImport, EmptyStr, r.LocalImage,
                       r.DestinationImage, r.Error)
    ELSE CASE p = PhaseExport ->
                Result(PhaseExport, r.SourceImage, EmptyStr,
                       IF r.Error # "nil" THEN EmptyStr ELSE r.LocalImage,
                       r.Error)
           [] p = PhaseImport ->
                Result(PhaseImport, r.LocalImage, EmptyStr,
                       r.DestinationImage, r.Error)

ShouldAbortNever(r, resumeOnError) == FALSE

ShouldAbortOnAnyError(r, resumeOnError) == r.Error # "nil"

ShouldAbortOnExportError(r, resumeOnError) ==
    r.Error # "nil" /\ (~resumeOnError \/ r.Phase = PhaseExport)

(* result.Error != nil && !h.options.ResumeOnError *)
ShouldAbort(r, resumeOnError) == r.Error # "nil" /\ ~resumeOnError

----------------------------------------------------------------------------
(* Initial state: the command line was parsed, the configuration holds   *)
(* one block, the session is new.                                         *)

Ops == {"export", "convert", "import", "transfer"}

(* the goroutines that call the session, and one that is in no call *)
Callers == {"g1", "g2"}

(* sync.RWMutex: the goroutines holding it for reading, the one holding *)
(* it for writing                                                         *)
Unlocked == [readers |-> {}, writer |-> "none"]

IdleCaller ==
    [pc |-> "idle", host |-> "", creds |-> 0, prompted |-> FALSE,
     envRead |-> FALSE]

NoFile ==
    [readable |-> TRUE, headers |-> {}, entities |-> <<>>, ignored |-> <<>>]

Init ==
    /\ op \in Ops
    /\ block \in Blocks
    /\ options \in [ResumeOnError : BOOLEAN, CleanOnError : BOOLEAN]
    /\ credentials = [h \in {} |-> 0]
    /\ heap = <<>>
    /\ calls = <<>>
    /\ callers = [g \in Callers |-> IdleCaller]
    /\ mu = Unlocked
    /\ cleanups = <<>>
    /\ canceled = FALSE
    /\ env = {}
    /\ file = NoFile
    /\ runs = <<>>
    /\ resolved = <<>>
    /\ cpc = "start"
    /\ tpc = "idle"
    /\ held = NoResult
    /\ stage = "none"
    /\ spc = "idle"
    /\ idx = 1
    /\ pending = NoResult
    /\ stageOut = <<>>
    /\ work = <<>>
    /\ out = <<>>
    /\ exitCode = -1

----------------------------------------------------------------------------
(* Stage goroutine (ExportImages, ConvertImages, ImportImages)           *)

(* for _, mapping := range block.ImageMappings: the mapping of the i-th  *)
(* iteration                                                              *)
RangeElementReversed(mappings, i) == mappings[Len(mappings) + 1 - i]

RangeElement(mappings, i) == mappings[i]

StartStage(st) ==
    /\ stage' = st
    /\ spc' = "validate"
    /\ idx' = 1
    /\ pending' = NoResult

StageValidate ==
    /\ spc = "validate"
    /\ IF validateStageBlock(stage, block) # "nil"
       THEN /\ pending' = Result(NoPhase, EmptyStr, EmptyStr, EmptyStr,
                                 validateStageBlock(stage, block))
            /\ spc' = "send"
       ELSE /\ pending' = pending
            /\ spc' = "loop"
    /\ UNCHANGED <<op, block, options, canceled, cleanups, env, file, runs,
                   callers, mu, credentials, heap, calls, resolved, cpc, tpc,
                   held, stage, idx, stageOut, work, out, exitCode>>

StageSkipDropsMapping ==
    /\ spc = "loop"
    /\ idx <= Len(block.ImageMappings)
    /\ StageSkips(stage, RangeElement(block.ImageMappings, idx),
                  block.Exclusions)
    /\ block' = [block EXCEPT !.ImageMappings =
                    SubSeq(block.ImageMappings, 1, idx - 1)
                    \o SubSeq(block.ImageMappings, idx + 1,
                              Len(block.ImageMappings))]
    /\ UNCHANGED <<op, options, canceled, cleanups, env, file, runs,
                   callers, mu, credentials, heap, calls, resolved, cpc,
                   tpc, held, stage, spc, idx, pending, stageOut, work,
                   out, exitCode>>

StageSkip ==
    /\ spc = "loop"
    /\ idx <= Len(block.ImageMappings)
    /\ StageSkips(stage, RangeElement(block.ImageMappings, idx),
                  block.Exclusions)
    /\ idx' = idx + 1
    /\ UNCHANGED <<op, block, options, canceled, cleanups, env, file, runs,
                   callers, mu, credentials, heap, calls, resolved, cpc, tpc,
                   held, stage, spc, pending, stageOut, work, out, exitCode>>

StageProcess ==
    /\ spc = "loop"
    /\ idx <= Len(block.ImageMappings)
    /\ ~StageSkips(stage, RangeElement(block.ImageMappings, idx),
                   block.Exclusions)
    /\ \E ok \in BOOLEAN :
         LET r == StageSingleImage(stage,
                                   RangeElement(block.ImageMappings, idx),
                                   ok, canceled)
         IN  /\ pending' = r
             /\ work' = Append(work, StageWork(stage, idx, r, canceled))
    /\ spc' = "send"
    /\ UNCHANGED <<op, block, options, canceled, cleanups, env, file, runs,
                   callers, mu, credentials, heap, calls, resolved, cpc, tpc,
                   held, stage, idx, stageOut, out, exitCode>>

StageClose ==
    /\ spc = "loop"
    /\ idx > Len(block.ImageMappings)
    /\ spc' = "closed"
    /\ UNCHANGED <<op, block, options, canceled, cleanups, env, file, runs,
                   callers, mu, credentials, heap, calls, resolved, cpc, tpc,
                   held, stage, idx, pending, stageOut, work, out, exitCode>>

(* the stage side of a send on the stage channel *)
StageSent ==
    /\ spc = "send"
    /\ stageOut' = Append(stageOut, [stage |-> stage, result |-> pending])
    /\ cleanups' = cleanups \o StageCleanup(stage, pending,
                                             options.CleanOnError)
    /\ spc' = StageAfterSend(pending)
    /\ idx' = IF StageAfterSend(pending) = "loop" THEN idx + 1 ELSE idx
    /\ pending' = NoResult

----------------------------------------------------------------------------
(* Transfer goroutine (TransferImages)                                    *)

TransferValidate ==
    /\ tpc = "validate"
    /\ IF validateTransferBlock(block) # "nil"
       THEN /\ held' = Result(NoPhase, EmptyStr, EmptyStr, EmptyStr,
                              validateTransferBlock(block))
            /\ tpc' = "sendFinal"
       ELSE /\ held' = held
            /\ tpc' = "srcCreds"
    /\ UNCHANGED <<op, block, options, canceled, cleanups, env, file, runs,
                   callers, mu, credentials, heap, calls, resolved, cpc,
                   stage, spc, idx, pending, stageOut, work, out, exitCode>>

TransferSourceCreds(v) ==
    /\ tpc = "srcCreds"
    /\ \E input \in CommandInputs :
         LET g == GetCredentials(credentials, heap, env,
                                 block.SourceRegistry.Host,
                                 input)
         IN  /\ credentials' = g.cache
             /\ heap' = g.heap
             /\ calls' = Append(calls, g.call)
             /\ IF g.err # "nil"
                THEN /\ held' = CredentialErrorResult(v, PhaseExport)
                     /\ tpc' = "sendFinal"
                ELSE /\ held' = held
                     /\ tpc' = "dstCreds"
    /\ resolved' = Append(resolved, block.SourceRegistry.Host)
    /\ UNCHANGED <<op, block, options, canceled, cleanups, env, file, runs,
                   callers, mu, cpc, stage, spc, idx, pending, stageOut,
                   work, out, exitCode>>

(* on success the export stage is started *)
TransferDestCreds(v) ==
    /\ tpc = "dstCreds"
    /\ \E input \in CommandInputs :
         LET g == GetCredentials(credentials, heap, env,
                                 block.DestinationRegistry.Host,
                                 input)
         IN  /\ credentials' = g.cache
             /\ heap' = g.heap
             /\ calls' = Append(calls, g.call)
             /\ IF g.err # "nil"
                THEN /\ held' = CredentialErrorResult(v, PhaseImport)
                     /\ tpc' = "sendFinal"
                     /\ UNCHANGED <<stage, spc, idx, pending>>
                ELSE /\ held' = held
                     /\ tpc' = "recv"
                     /\ StartStage(PhaseExport)
    /\ resolved' = Append(resolved, block.DestinationRegistry.Host)
    /\ UNCHANGED <<op, block, options, canceled, cleanups, env, file, runs,
                   callers, mu, cpc, stageOut, work, out, exitCode>>

TransferReceiveEager(v) ==
    /\ tpc \in {"recv", "sendStage"}
    /\ StageSent
    /\ held' = WrapResult(v, stage, pending)
    /\ tpc' = "sendStage"
    /\ UNCHANGED <<op, block, options, canceled, env, file, runs, callers,
                   mu, credentials, heap, calls, resolved, cpc, stage,
                   work, out, exitCode>>

(* for result := range stageResults: one result is received *)
TransferReceive(v) ==
    /\ tpc = "recv"
    /\ StageSent
    /\ held' = WrapResult(v, stage, pending)
    /\ tpc' = "sendStage"
    /\ UNCHANGED <<op, block, options, canceled, env, file, runs, callers, mu,
                   credentials, heap, calls, resolved, cpc, stage,
                   work, out, exitCode>>

(* results <- TransferResult{...}, received by handleTransfer, and the   *)
(* statements up to the next receive or the return                        *)
TransferSend ==
    /\ tpc \in {"sendStage", "sendFinal"}
    /\ cpc = "consume"
    /\ out' = Append(out, held)
    /\ tpc' = IF tpc = "sendFinal" \/ ShouldAbort(held, options.ResumeOnError)
              THEN "ABORTED"
              ELSE "recv"
    /\ held' = NoResult
    /\ UNCHANGED <<op, block, options, canceled, cleanups, env, file, runs,
                   callers, mu, credentials, heap, calls, resolved, cpc,
                   stage, spc, idx, pending, stageOut, work, exitCode>>

(* the stage channel was closed: the range loop ends and the next phase  *)
(* block runs, or the goroutine returns                                   *)
TransferStageClosed(v) ==
    /\ tpc = "recv"
    /\ spc = "closed"
    /\ IF NextPhase(v, stage) = NoPhase
       THEN /\ tpc' = "DONE"
            /\ UNCHANGED <<stage, spc, idx, pending>>
       ELSE /\ tpc' = "recv"
            /\ StartStage(NextPhase(v, stage))
    /\ UNCHANGED <<op, block, options, canceled, cleanups, env, file, runs,
                   callers, mu, credentials, heap, calls, resolved, cpc,
                   held, stageOut, work, out, exitCode>>

----------------------------------------------------------------------------
(* Command handlers (handleExport, handleConvert, handleImport,          *)
(* handleTransfer) and main                                               *)

Failures(results, phases) ==
    Cardinality({ i \in 1..Len(results) :
                    results[i].Phase \in phases /\ results[i].Error # "nil" })

(* the failure count the handler's summary ends with *)
FailureCount(o, results) ==
    IF o = "transfer"
    THEN Failures(results, {PhaseExport, PhaseConvert, PhaseImport})
    ELSE Failures(results, {NoPhase})

(* the counters a handler keeps while it ranges over the stream: for    *)
(* transfer, counters[phase]                                               *)
Counters(results, phase) ==
    LET of == { i \in 1..Len(results) : results[i].Phase = phase }
    IN  [total |-> Cardinality(of),
         success |-> Cardinality({ i \in of : results[i].Error = "nil" }),
         failures |-> Cardinality({ i \in of : results[i].Error # "nil" })]

(* the groups of counts the summary prints: the one of the command, or   *)
(* for transfer the phases EXPORT, CONVERT, IMPORT with stats.total > 0   *)
PrintedGroups(o, results) ==
    IF o = "transfer"
    THEN { p \in {PhaseExport, PhaseConvert, PhaseImport} :
             Counters(results, p).total > 0 }
    ELSE {NoPhase}

handleExport ==
    /\ cpc = "start"
    /\ op = "export"
    /\ \E input \in CommandInputs :
         LET g == GetCredentials(credentials, heap, env,
                                 block.SourceRegistry.Host,
                                 input)
         IN  /\ credentials' = g.cache
             /\ heap' = g.heap
             /\ calls' = Append(calls, g.call)
             /\ IF g.err # "nil"
                THEN /\ cpc' = "done"
                     /\ exitCode' = 1
                     /\ UNCHANGED <<stage, spc, idx, pending>>
                ELSE /\ cpc' = "consume"
                     /\ exitCode' = exitCode
                     /\ StartStage(PhaseExport)
    /\ resolved' = Append(resolved, block.SourceRegistry.Host)
    /\ UNCHANGED <<op, block, options, canceled, cleanups, env, file, runs,
                   callers, mu, tpc, held, stageOut, work, out>>

handleConvert ==
    /\ cpc = "start"
    /\ op = "convert"
    /\ cpc' = "consume"
    /\ StartStage(PhaseConvert)
    /\ UNCHANGED <<op, block, options, canceled, cleanups, env, file, runs,
                   callers, mu, credentials, heap, calls, resolved, tpc,
                   held, stageOut, work, out, exitCode>>

handleImport ==
    /\ cpc = "start"
    /\ op = "import"
    /\ \E input \in CommandInputs :
         LET g == GetCredentials(credentials, heap, env,
                                 block.DestinationRegistry.Host,
                                 input)
         IN  /\ credentials' = g.cache
             /\ heap' = g.heap
             /\ calls' = Append(calls, g.call)
             /\ IF g.err # "nil"
                THEN /\ cpc' = "done"
                     /\ exitCode' = 1
                     /\ UNCHANGED <<stage, spc, idx, pending>>
                ELSE /\ cpc' = "consume"
                     /\ exitCode' = exitCode
                     /\ StartStage(PhaseImport)
    /\ resolved' = Append(resolved, block.DestinationRegistry.Host)
    /\ UNCHANGED <<op, block, options, canceled, cleanups, env, file, runs,
                   callers, mu, tpc, held, stageOut, work, out>>

handleTransfer ==
    /\ cpc = "start"
    /\ op = "transfer"
    /\ cpc' = "consume"
    /\ tpc' = "validate"
    /\ UNCHANGED <<op, block, options, canceled, cleanups, env, file, runs,
                   callers, mu, credentials, heap, calls, resolved, held,
                   stage, spc, idx, pending, stageOut, work, out, exitCode>>

(* for result := range results, in the handler of a single stage *)
CommandReceive ==
    /\ cpc = "consume"
    /\ op # "transfer"
    /\ StageSent
    /\ out' = Append(out, pending)
    /\ UNCHANGED <<op, block, options, canceled, env, file, runs, callers, mu,
                   credentials, heap, calls, resolved, cpc, tpc, held,
                   stage, work, exitCode>>

(* the stream was closed: summary, return, exit status *)
CommandFinish ==
    /\ cpc = "consume"
    /\ IF op = "transfer" THEN tpc \in {"DONE", "ABORTED"} ELSE spc = "closed"
    /\ cpc' = "done"
    /\ exitCode' = IF FailureCount(op, out) > 0 THEN 1 ELSE 0
    /\ UNCHANGED <<op, block, options, canceled, cleanups, env, file, runs,
                   callers, mu, credentials, heap, calls, resolved, tpc,
                   held, stage, spc, idx, pending, stageOut, work, out>>

----------------------------------------------------------------------------
(* The context given to the handlers (NewExportHandler(ctx, ...) and the  *)
(* like) is canceled or its deadline passes while the command runs.  No   *)
(* handler and no stage loop selects on ctx.Done(): only the transport    *)
(* calls see it.                                                          *)
Cancel ==
    /\ ~canceled
    /\ cpc = "consume"
    /\ canceled' = TRUE
    /\ UNCHANGED <<op, block, options, cleanups, env, file, runs,
                   credentials, heap, calls, callers, mu, resolved, cpc,
                   tpc, held, stage, spc, idx, pending, stageOut, work,
                   out, exitCode>>

----------------------------------------------------------------------------
(* The session's methods called by several goroutines.  Taking the lock   *)
(* is a step, and so is what is done under it up to its release.          *)

MaxCalls == 3

SessionHosts == {"r1", "r2"}

SessionInputs == { InputFail, InputOf("u1"), InputOf("u2") }

NoBlock ==
    [SourceRegistry |-> [Host |-> ""], DestinationRegistry |-> [Host |-> ""],
     ImageMappings |-> <<>>, Exclusions |-> <<>>]

(* calls begun: the ones that returned and the ones in flight *)
CallsBegun ==
    Len(calls) + Cardinality({ g \in Callers : callers[g].pc # "idle" })

SessionFrame ==
    UNCHANGED <<op, block, options, canceled, cleanups, env, file, runs,
                resolved, cpc, tpc, held, stage, spc, idx, pending, stageOut,
                work, out, exitCode>>

(* RLock returns when no goroutine holds the mutex for writing, Lock     *)
(* when no goroutine holds it at all                                      *)
CanRLock(m) == m.writer = "none"

CanLockAlways(m) == TRUE

CanLock(m) == m.writer = "none" /\ m.readers = {}

(* GetCredentials(registryURL) is called; s.mu.RLock() *)
SessionRLock(g) ==
    /\ callers[g].pc = "idle"
    /\ CallsBegun < MaxCalls
    /\ CanRLock(mu)
    /\ mu' = [mu EXCEPT !.readers = @ \cup {g}]
    /\ \E registryURL \in SessionHosts :
         callers' = [callers EXCEPT ![g] =
             [pc |-> "rlocked", host |-> registryURL, creds |-> 0,
              prompted |-> FALSE, envRead |-> FALSE]]
    /\ UNCHANGED <<credentials, heap, calls>>
    /\ SessionFrame

(* creds, exists := s.credentials[registryURL]; RUnlock; and the return   *)
(* of the cached pointer when it exists                                   *)
SessionLookup(g) ==
    /\ callers[g].pc = "rlocked"
    /\ mu' = [mu EXCEPT !.readers = @ \ {g}]
    /\ IF CacheHit(credentials, callers[g].host)
       THEN /\ calls' = Append(calls,
                    Call("GetCredentials", callers[g].host, TRUE, FALSE,
                         FALSE, "nil", credentials[callers[g].host],
                         heap[credentials[callers[g].host]]))
            /\ callers' = [callers EXCEPT ![g] =
                    [pc |-> "idle", host |-> callers[g].host,
                     creds |-> credentials[callers[g].host],
                     prompted |-> FALSE, envRead |-> FALSE]]
       ELSE /\ calls' = calls
            /\ callers' = [callers EXCEPT ![g].pc = "prompt"]
    /\ UNCHANGED <<credentials, heap>>
    /\ SessionFrame

SessionPromptCachesFailure(g) ==
    /\ callers[g].pc = "prompt"
    /\ \E input \in SessionInputs :
         LET m == ResolveOnMiss(env, callers[g].host, input)
         IN  IF m.err # "nil"
             THEN /\ calls' = Append(calls,
                          Call("GetCredentials", callers[g].host, FALSE,
                               m.prompted, m.envRead, m.err, 0, m.value))
                  /\ callers' = [callers EXCEPT ![g] =
                          [pc |-> "idle", host |-> callers[g].host,
                           creds |-> 0, prompted |-> m.prompted,
                           envRead |-> m.envRead]]
                  /\ heap' = heap
                  /\ credentials' = CacheStore(credentials,
                                               callers[g].host, 0)
             ELSE /\ calls' = calls
                  /\ callers' = [callers EXCEPT ![g] =
                          [pc |-> "store", host |-> callers[g].host,
                           creds |-> Len(heap) + 1,
                           prompted |-> m.prompted,
                           envRead |-> m.envRead]]
                  /\ heap' = Append(heap, m.value)
                  /\ credentials' = credentials
    /\ UNCHANGED mu
    /\ SessionFrame

(* creds, err := s.promptCredentials(registryURL) and the error return *)
SessionPrompt(g) ==
    /\ callers[g].pc = "prompt"
    /\ \E input \in SessionInputs :
         LET m == ResolveOnMiss(env, callers[g].host, input)
         IN  IF m.err # "nil"
             THEN /\ calls' = Append(calls,
                          Call("GetCredentials", callers[g].host, FALSE,
                               m.prompted, m.envRead, m.err, 0, m.value))
                  /\ callers' = [callers EXCEPT ![g] =
                          [pc |-> "idle", host |-> callers[g].host,
                           creds |-> 0, prompted |-> m.prompted,
                           envRead |-> m.envRead]]
                  /\ heap' = heap
             ELSE /\ calls' = calls
                  /\ callers' = [callers EXCEPT ![g] =
                          [pc |-> "store", host |-> callers[g].host,
                           creds |-> Len(heap) + 1,
                           prompted |-> m.prompted,
                           envRead |-> m.envRead]]
                  /\ heap' = Append(heap, m.value)
    /\ UNCHANGED <<credentials, mu>>
    /\ SessionFrame

(* s.mu.Lock() before the store *)
SessionLock(g) ==
    /\ callers[g].pc = "store"
    /\ CanLock(mu)
    /\ mu' = [mu EXCEPT !.writer = g]
    /\ callers' = [callers EXCEPT ![g].pc = "locked"]
    /\ UNCHANGED <<credentials, heap, calls>>
    /\ SessionFrame

(* s.credentials[registryURL] = creds; Unlock; return creds, nil *)
SessionStore(g) ==
    /\ callers[g].pc = "locked"
    /\ mu' = [mu EXCEPT !.writer = "none"]
    /\ credentials' = CacheStore(credentials, callers[g].host,
                                 callers[g].creds)
    /\ calls' = Append(calls,
            Call("GetCredentials", callers[g].host, FALSE,
                 callers[g].prompted, callers[g].envRead, "nil",
                 callers[g].creds, heap[callers[g].creds]))
    /\ callers' = [callers EXCEPT ![g].pc = "idle"]
    /\ UNCHANGED heap
    /\ SessionFrame

(* Clear() is called by a goroutine that is in no other call; s.mu.Lock() *)
SessionClearLock(g) ==
    /\ callers[g].pc = "idle"
    /\ CallsBegun < MaxCalls
    /\ CanLock(mu)
    /\ mu' = [mu EXCEPT !.writer = g]
    /\ callers' = [callers EXCEPT ![g] =
           [pc |-> "clearing", host |-> "", creds |-> 0,
            prompted |-> FALSE, envRead |-> FALSE]]
    /\ UNCHANGED <<credentials, heap, calls>>
    /\ SessionFrame

(* s.credentials = make(map[string]*Credentials) and the deferred Unlock *)
SessionClear(g) ==
    /\ callers[g].pc = "clearing"
    /\ mu' = [mu EXCEPT !.writer = "none"]
    /\ credentials' = Clear(credentials, heap).cache
    /\ heap' = Clear(credentials, heap).heap
    /\ calls' = Append(calls, Call("Clear", "", FALSE, FALSE, FALSE, "nil",
                                   0, promptCredentials(InputFail)))
    /\ callers' = [callers EXCEPT ![g].pc = "idle"]
    /\ SessionFrame

----------------------------------------------------------------------------
(* Configuration (ParseConfig) and the commands up to the block they use. *)
(* The BRMS parser is a library: what it returns is part of the input.    *)

HttpPrefix == <<"h", "t", "t", "p", ":", "/", "/">>

HttpsPrefix == <<"h", "t", "t", "p", "s", ":", "/", "/">>

(* strings.TrimPrefix *)
TrimPrefix(s, prefix) ==
    IF HasPrefix(s, prefix) THEN SubSeq(s, Len(prefix) + 1, Len(s)) ELSE s

(* strings.Trim(s, cutset) for a cutset of one character: the leading and *)
(* the trailing occurrences are removed                                   *)
RECURSIVE TrimLeft(_, _)
TrimLeft(s, c) ==
    IF s # <<>> /\ Head(s) = c THEN TrimLeft(Tail(s), c) ELSE s

RECURSIVE TrimRight(_, _)
TrimRight(s, c) ==
    IF s # <<>> /\ s[Len(s)] = c
    THEN TrimRight(SubSeq(s, 1, Len(s) - 1), c)
    ELSE s

Trim(s, c) == TrimRight(TrimLeft(s, c), c)

(* strings.TrimSpace, for the blank " " *)
TrimSpace(s) == Trim(s, " ")

(* parseRegistryURL: the host, or the error for an empty URL *)
parseRegistryURL(url) ==
    IF TrimSpace(url) = <<>>
    THEN [Host |-> <<>>, err |-> "registry URL cannot be empty"]
    ELSE [Host |-> Trim(TrimPrefix(TrimPrefix(TrimSpace(url), HttpPrefix),
                                   HttpsPrefix), "/"),
          err |-> "nil"]

(* the block headers a file may hold, source and destination as written *)
Header(source, destination) ==
    [source |-> source, destination |-> destination]

HeaderPool ==
    { Header(HttpsPrefix \o <<"r", "1">>, HttpsPrefix \o <<"r", "2">>),
      Header(HttpPrefix \o <<"r", "1">>, <<>>),
      Header(<<>>, HttpsPrefix \o <<"r", "2">>),
      Header(<<"r", "1">>, <<"r", "2">>),
      Header(HttpsPrefix \o HttpPrefix \o <<"r", "1">>, <<"/">>),
      Header(HttpPrefix, HttpsPrefix \o <<"r", "2", "/">>),
      Header(<<" ">> \o HttpsPrefix \o <<"r", "1", " ">>,
             HttpPrefix \o HttpsPrefix \o <<"r", "2">>) }

(* what parser.Parse gives for a file: an error (readable = FALSE), or    *)
(* the map parsed.Blocks, source to destination, and the lists Entities   *)
(* and IgnoredItems                                                       *)
Files ==
    [readable : BOOLEAN, headers : SUBSET HeaderPool,
     entities : SeqsUpTo(MappingPool, 1), ignored : {<<>>, << <<"b">> >>}]

(* the body of the loop over parsed.Blocks for one entry of the map *)
ParseBlock(f, h) ==
    LET s == parseRegistryURL(h.source)
        d == parseRegistryURL(h.destination)
    IN  IF s.err # "nil"
        THEN [err |-> "invalid source registry", block |-> NoBlock]
        ELSE IF d.err # "nil"
             THEN [err |-> "invalid destination registry", block |-> NoBlock]
             ELSE [err |-> "nil",
                   block |-> [SourceRegistry |-> [Host |-> s.Host],
                              DestinationRegistry |-> [Host |-> d.Host],
                              ImageMappings |-> f.entities,
                              Exclusions |-> f.ignored]]

(* ParseConfig: the results it can return.  The map is ranged over in no  *)
(* fixed order and the first entry that fails ends the loop, so any       *)
(* failing entry can give the error.                                      *)
ParseConfig(f) ==
    IF ~f.readable
    THEN { [err |-> "failed to parse BRMS file", Blocks |-> {}] }
    ELSE LET failing == { h \in f.headers : ParseBlock(f, h).err # "nil" }
         IN  IF failing # {}
             THEN { [err |-> ParseBlock(f, h).err, Blocks |-> {}] :
                      h \in failing }
             ELSE { [err |-> "nil",
                     Blocks |-> { ParseBlock(f, h).block : h \in f.headers }] }

HasProtocol(host) == HasPrefix(host, HttpPrefix) \/ HasPrefix(host, HttpsPrefix)

(* handleValidate after ParseConfig returned config *)
ValidateConfig(config) ==
    IF config.err # "nil" THEN "validation failed"
    ELSE IF Cardinality(config.Blocks) # 1 THEN "block count"
    ELSE LET b == CHOOSE x \in config.Blocks : TRUE
         IN  IF ~HasProtocol(b.SourceRegistry.Host)
             THEN "source registry URL must specify protocol"
             ELSE IF /\ b.DestinationRegistry.Host # <<>>
                     /\ ~HasProtocol(b.DestinationRegistry.Host)
                  THEN "destination registry URL must specify protocol"
                  ELSE "nil"

(* handleExport, handleConvert, handleImport, handleTransfer up to        *)
(* block := config.Blocks[0]                                              *)
LoadBlock(config) ==
    IF config.err # "nil" THEN "failed to parse config"
    ELSE IF Cardinality(config.Blocks) # 1 THEN "block count"
    ELSE "nil"

(* main: the status the process exits with when the handler returned err; *)
(* -1 stands for a handler that has not returned                          *)
ExitStatus(err) == IF err # "nil" THEN 1 ELSE 0

MaxRuns == 2

ConfigFrame ==
    UNCHANGED <<op, block, options, canceled, cleanups, env, file,
                credentials, heap, calls, callers, mu, resolved, cpc, tpc,
                held, stage, spc, idx, pending, stageOut, work, out,
                exitCode>>

(* magina validate -c file *)
RunValidate ==
    /\ Len(runs) < MaxRuns
    /\ \E config \in ParseConfig(file) :
         runs' = Append(runs,
                   [command |-> "validate", config |-> config,
                    err |-> ValidateConfig(config),
                    exit |-> ExitStatus(ValidateConfig(config))])
    /\ ConfigFrame

(* magina export|convert|import|transfer -c file, up to the block *)
RunLoad(command) ==
    /\ Len(runs) < MaxRuns
    /\ \E config \in ParseConfig(file) :
         runs' = Append(runs,
                   [command |-> command, config |-> config,
                    err |-> LoadBlock(config),
                    exit |-> IF LoadBlock(config) # "nil"
                             THEN ExitStatus(LoadBlock(config)) ELSE -1])
    /\ ConfigFrame

----------------------------------------------------------------------------
(* AuthHandler (auth.go): the credential store with the environment      *)
(* lookup.  No command constructs it.  Its map is keyed by the registry  *)
(* URL as the caller wrote it.                                            *)

(* base64.StdEncoding.EncodeToString([]byte(username + ":" + password))  *)
(* on the user names and passwords a prompt can give                      *)
EncodeToString(username, password) ==
    CASE username = "u1" /\ password = "p" -> "dTE6cA=="
      [] username = "u2" /\ password = "p" -> "dTI6cA=="
      [] username = "" /\ password = "" -> "Og=="

LowerCase ==
    <<"a", "b", "c", "d", "e", "f", "g", "h", "i", "j", "k", "l", "m",
      "n", "o", "p", "q", "r", "s", "t", "u", "v", "w", "x", "y", "z">>

UpperCase ==
    <<"A", "B", "C", "D", "E", "F", "G", "H", "I", "J", "K", "L", "M",
      "N", "O", "P", "Q", "R", "S", "T", "U", "V", "W", "X", "Y", "Z">>

(* strings.ToUpper *)
ToUpper(s) ==
    [i \in 1..Len(s) |->
        IF \E n \in 1..Len(LowerCase) : LowerCase[n] = s[i]
        THEN UpperCase[CHOOSE n \in 1..Len(LowerCase) : LowerCase[n] = s[i]]
        ELSE s[i]]

(* the pairs given to strings.NewReplacer, in the order of the arguments *)
ReplacerPairs ==
    << <<HttpsPrefix, <<>> >>, <<HttpPrefix, <<>> >>,
       << <<".">>, <<"_">> >>, << <<"/">>, <<"_">> >>,
       << <<"-">>, <<"_">> >> >>

(* Replacer.Replace: from the left, at each place the first pair whose   *)
(* old text begins there is applied and the scan goes on after it        *)
RECURSIVE Replace(_)
Replace(s) ==
    IF s = <<>> THEN <<>>
    ELSE LET hits == { n \in 1..Len(ReplacerPairs) :
                         HasPrefix(s, ReplacerPairs[n][1]) }
         IN  IF hits = {}
             THEN <<Head(s)>> \o Replace(Tail(s))
             ELSE LET n == CHOOSE m \in hits : \A o \in hits : m <= o
                  IN  ReplacerPairs[n][2]
                      \o Replace(SubSeq(s, Len(ReplacerPairs[n][1]) + 1,
                                        Len(s)))

UsernameSuffix == <<"_", "U", "S", "E", "R", "N", "A", "M", "E">>

PasswordSuffix == <<"_", "P", "A", "S", "S", "W", "O", "R", "D">>

(* prefix := strings.NewReplacer(...).Replace(strings.ToUpper(url)) *)
EnvPrefix(registryURL) == Replace(ToUpper(registryURL))

(* os.Getenv: the value, "" for a variable that is not set *)
Getenv(environment, name) ==
    IF name \in DOMAIN environment THEN environment[name] ELSE ""

(* AuthHandler.getCredsFromEnv *)
getCredsFromEnv(environment, registryURL) ==
    LET username ==
            Getenv(environment, EnvPrefix(registryURL) \o UsernameSuffix)
        password ==
            Getenv(environment, EnvPrefix(registryURL) \o PasswordSuffix)
    IN  IF username = "" \/ password = ""
        THEN [err |-> "credentials not found in environment",
              value |-> [Username |-> "", Password |-> "", Auth |-> ""]]
        ELSE [err |-> "nil",
              value |-> [Username |-> username, Password |-> password,
                         Auth |-> EncodeToString(username, password)]]

(* AuthHandler.promptCredentials: the struct it returns, with Auth set *)
AuthPromptCredentials(input) ==
    [Username |-> input.username, Password |-> input.password,
     Auth |-> EncodeToString(input.username, input.password)]

(* AuthHandler.GetCredentials: cache, then environment, then prompt *)
AuthGetCredentials(cache, hp, environment, registryURL, input) ==
    IF registryURL \in DOMAIN cache
    THEN [cache |-> cache, heap |-> hp,
          call |-> Call("GetCredentials", registryURL, TRUE, FALSE, FALSE,
                        "nil", cache[registryURL], hp[cache[registryURL]])]
    ELSE LET e == getCredsFromEnv(environment, registryURL)
         IN  IF e.err = "nil"
             THEN [cache |-> CacheStore(cache, registryURL, Len(hp) + 1),
                   heap |-> Append(hp, e.value),
                   call |-> Call("GetCredentials", registryURL, FALSE,
                                 FALSE, TRUE, "nil", Len(hp) + 1, e.value)]
             ELSE IF ~input.readable
                  THEN [cache |-> cache, heap |-> hp,
                        call |-> Call("GetCredentials", registryURL, FALSE,
                                      TRUE, TRUE, "credentials", 0,
                                      AuthPromptCredentials(input))]
                  ELSE [cache |-> CacheStore(cache, registryURL,
                                             Len(hp) + 1),
                        heap |-> Append(hp, AuthPromptCredentials(input)),
                        call |-> Call("GetCredentials", registryURL, FALSE,
                                      TRUE, TRUE, "nil", Len(hp) + 1,
                                      AuthPromptCredentials(input))]

(* the registry URLs given to the handler *)
AuthUrls ==
    { <<"r", "-", "1">>, HttpsPrefix \o <<"r", "-", "1">>,
      HttpPrefix \o <<"r", ".", "1", "/", "a">> }

(* an environment with the two variables of a prefix *)
EnvOf(prefix, username, password) ==
    [n \in {prefix \o UsernameSuffix, prefix \o PasswordSuffix} |->
        IF n = prefix \o UsernameSuffix THEN username ELSE password]

AuthEnvs ==
    { EnvOf(<<"R", "_", "1">>, "", ""),
      EnvOf(<<"R", "_", "1">>, "u2", "p"),
      EnvOf(<<"R", "_", "1">>, "u2", ""),
      EnvOf(<<"R", "_", "1", "_", "A">>, "u2", "p") }

(* one call of GetCredentials(registryURL) on the handler *)
AuthCall ==
    /\ Len(calls) < MaxCalls
    /\ \E registryURL \in AuthUrls, input \in SessionInputs :
         LET g == AuthGetCredentials(credentials, heap, env, registryURL,
                                     input)
         IN  /\ credentials' = g.cache
             /\ heap' = g.heap
             /\ calls' = Append(calls, g.call)
    /\ UNCHANGED <<callers, mu>>
    /\ SessionFrame

----------------------------------------------------------------------------
(* The earlier ConvertHandler (the second file kept in session.go), the  *)
(* one stage that cleans up after a failed image                          *)

(* validateConvertBlock of the earlier handler *)
EarlierValidateConvertBlock(b) ==
    IF Len(b.ImageMappings) = 0 THEN "validation"
    ELSE IF \E i \in 1..Len(b.ImageMappings) :
               b.ImageMappings[i].Destination = EmptyStr
         THEN "validation"
         ELSE "nil"

(* isExcluded of the earlier handler: image == excl *)
EarlierIsExcluded(image, exclusions) ==
    \E i \in 1..Len(exclusions) : image = exclusions[i]

(* convertSingleImage of the earlier handler.  outcome is what the       *)
(* transport does: a reference does not parse ("reference", the result   *)
(* has no DestinationImage), the image cannot be read or tagged          *)
(* ("image"), or the tag is written ("ok")                                *)
EarlierOutcomes == {"ok", "reference", "image"}

EarlierConvertSingleImage(mapping, outcome) ==
    CASE outcome = "reference" ->
           Result(NoPhase, mapping.Source, EmptyStr, EmptyStr, "image")
      [] outcome = "image" ->
           Result(NoPhase, mapping.Source, EmptyStr, mapping.Destination,
                  "image")
      [] outcome = "ok" ->
           Result(NoPhase, mapping.Source, EmptyStr, mapping.Destination,
                  "nil")

(* if result.Error != nil && h.options.CleanOnError *)
EarlierCleans(r, cleanOnError) == r.Error # "nil" /\ cleanOnError

(* cleanupImage(image): remote.Delete is tried when the reference parses  *)
(* (the empty one does not) and deleted tells whether it succeeded; a     *)
(* failure is logged and nothing is returned                              *)
cleanupImage(image, deleted) ==
    [image |-> image, tried |-> image # EmptyStr,
     deleted |-> image # EmptyStr /\ deleted]

(* where the loop goes when cleanupImage has returned *)
EarlierAfterCleanupStopOnFailure(c) == IF c.deleted THEN "loop" ELSE "closed"

EarlierAfterCleanup(c) == "loop"

EarlierFrame ==
    UNCHANGED <<op, block, options, canceled, env, file, runs, credentials,
                heap, calls, callers, mu, resolved, cpc, tpc, held, stage,
                exitCode>>

EarlierValidate ==
    /\ spc = "validate"
    /\ IF EarlierValidateConvertBlock(block) # "nil"
       THEN /\ pending' = Result(NoPhase, EmptyStr, EmptyStr, EmptyStr,
                                 EarlierValidateConvertBlock(block))
            /\ spc' = "send"
       ELSE /\ pending' = pending
            /\ spc' = "loop"
    /\ UNCHANGED <<idx, stageOut, work, out, cleanups>>
    /\ EarlierFrame

EarlierSkip ==
    /\ spc = "loop"
    /\ idx <= Len(block.ImageMappings)
    /\ EarlierIsExcluded(RangeElement(block.ImageMappings, idx).Source,
                         block.Exclusions)
    /\ idx' = idx + 1
    /\ UNCHANGED <<spc, pending, stageOut, work, out, cleanups>>
    /\ EarlierFrame

EarlierConvert ==
    /\ spc = "loop"
    /\ idx <= Len(block.ImageMappings)
    /\ ~EarlierIsExcluded(RangeElement(block.ImageMappings, idx).Source,
                          block.Exclusions)
    /\ \E outcome \in EarlierOutcomes :
         LET r == EarlierConvertSingleImage(
                      RangeElement(block.ImageMappings, idx), outcome)
         IN  /\ pending' = r
             /\ work' = Append(work, [index |-> idx,
                                      failed |-> r.Error # "nil"])
    /\ spc' = "send"
    /\ UNCHANGED <<idx, stageOut, out, cleanups>>
    /\ EarlierFrame

(* results <- result, taken by the consumer's range *)
EarlierReceive ==
    /\ spc = "send"
    /\ stageOut' = Append(stageOut, [stage |-> stage, result |-> pending])
    /\ out' = Append(out, pending)
    /\ spc' = IF pending.Error = "validation" THEN "closed"
              ELSE IF EarlierCleans(pending, options.CleanOnError)
                   THEN "cleanup"
                   ELSE "loop"
    /\ idx' = IF pending.Error = "validation"
                 \/ EarlierCleans(pending, options.CleanOnError)
              THEN idx ELSE idx + 1
    /\ UNCHANGED <<pending, work, cleanups>>
    /\ EarlierFrame

(* h.cleanupImage(result.DestinationImage) *)
EarlierCleanup ==
    /\ spc = "cleanup"
    /\ \E deleted \in BOOLEAN :
         LET c == cleanupImage(pending.DestinationImage, deleted)
         IN  /\ cleanups' = Append(cleanups, c)
             /\ spc' = EarlierAfterCleanup(c)
             /\ idx' = IF EarlierAfterCleanup(c) = "loop"
                       THEN idx + 1 ELSE idx
    /\ UNCHANGED <<pending, stageOut, work, out>>
    /\ EarlierFrame

EarlierClose ==
    /\ spc = "loop"
    /\ idx > Len(block.ImageMappings)
    /\ spc' = "closed"
    /\ UNCHANGED <<idx, pending, stageOut, work, out, cleanups>>
    /\ EarlierFrame

(* the blocks given to the earlier handler; it reads no registry host *)
EarlierBlocks ==
    { [SourceRegistry |-> [Host |-> "r1"],
       DestinationRegistry |-> [Host |-> "r1"],
       ImageMappings |-> m,
       Exclusions |-> e] :
         m \in SeqsUpTo(MappingPool
                          \cup {[Source |-> <<"a">>,
                                 Destination |-> EmptyStr]},
                        MaxMappings),
         e \in SeqsUpTo({<<"a">>, <<"b">>}, MaxExclusions) }

----------------------------------------------------------------------------
(* The exclusion decision on its own: isExcluded of each stage is called *)
(* on the mapping of a block, between calls the caller may hand over the *)
(* same patterns in another list and the session may resolve a host,     *)
(* once                                                                   *)

MaxPatterns == 2
MaxDecisions == 2

(* the string of the mapping a stage gives to its isExcluded *)
StageImage(st, mapping) ==
    IF st = PhaseImport THEN mapping.Destination ELSE mapping.Source

(* the patterns of the lists: plain, marked, empty *)
ExclusionPatterns == { <<"b">>, <<"!", "b">>, <<>> }

ExclusionBlocks ==
    { [SourceRegistry |-> [Host |-> "r1"],
       DestinationRegistry |-> [Host |-> "r1"],
       ImageMappings |-> <<m>>,
       Exclusions |-> e] :
         m \in MappingPool, e \in SeqsUpTo(ExclusionPatterns, MaxPatterns) }

ExclusionFrame ==
    UNCHANGED <<op, options, canceled, cleanups, env, file, runs, callers,
                mu, resolved, cpc, tpc, held, stage, spc, idx, pending,
                stageOut, out, exitCode>>

(* if h.isExcluded(..., block.Exclusions) in the loop of stage st *)
ExclusionDecide(st) ==
    /\ Len(work) < MaxDecisions
    /\ work' = Append(work,
           [stage |-> st,
            image |-> StageImage(st, block.ImageMappings[1]),
            exclusions |-> block.Exclusions,
            excluded |-> StageSkips(st, block.ImageMappings[1],
                                   block.Exclusions)])
    /\ UNCHANGED <<block, credentials, heap, calls>>
    /\ ExclusionFrame

(* the next block lists the same patterns in another order *)
ExclusionReorder ==
    /\ \E e \in SeqsUpTo(ExclusionPatterns, MaxPatterns) :
         /\ e # block.Exclusions
         /\ Len(e) = Len(block.Exclusions)
         /\ { e[i] : i \in 1..Len(e) } =
               { block.Exclusions[i] : i \in 1..Len(block.Exclusions) }
         /\ block' = [block EXCEPT !.Exclusions = e]
    /\ UNCHANGED <<work, credentials, heap, calls>>
    /\ ExclusionFrame

(* the session resolves a host between two decisions *)
ExclusionResolve ==
    /\ calls = <<>>
    /\ \E input \in CommandInputs :
         LET g == GetCredentials(credentials, heap, env,
                                 block.SourceRegistry.Host, input)
         IN  /\ credentials' = g.cache
             /\ heap' = g.heap
             /\ calls' = Append(calls, g.call)
    /\ UNCHANGED <<block, work>>
    /\ ExclusionFrame

----------------------------------------------------------------------------
(* Specifications *)

StageNext == StageValidate \/ StageSkip \/ StageProcess \/ StageClose

CommandNext ==
    \/ handleExport
    \/ handleConvert
    \/ handleImport
    \/ handleTransfer
    \/ CommandReceive
    \/ CommandFinish

TransferNext(v) ==
    \/ TransferValidate
    \/ TransferSourceCreds(v)
    \/ TransferDestCreds(v)
    \/ TransferReceive(v)
    \/ TransferSend
    \/ TransferStageClosed(v)

(* the three-phase TransferImages *)
Next == CommandNext \/ StageNext \/ TransferNext(3)

Spec == Init /\ [][Next]_vars

(* the two-phase TransferImages *)
NextTwoPhase == CommandNext \/ StageNext \/ TransferNext(2)

SpecTwoPhase == Init /\ [][NextTwoPhase]_vars

(* the commands under a context that can be canceled *)
NextCancel == Next \/ Cancel

SpecCancel == Init /\ [][NextCancel]_vars

(* the runs whose termination is checked: CleanOnError, which no stage   *)
(* reads, is off, and the exclusions are a pattern that matches some     *)
(* images, the marker alone, or the empty pattern                         *)
LiveInit ==
    /\ Init
    /\ ~options.CleanOnError
    /\ \A i \in 1..Len(block.Exclusions) :
          block.Exclusions[i] \in { <<"b">>, <<"!">>, EmptyStr }

(* the commands when every goroutine that can run is scheduled: the      *)
(* command handler, the stage goroutine and the transfer goroutine each  *)
(* take their next step once it stays possible                            *)
SpecLive ==
    /\ LiveInit
    /\ [][Next]_vars
    /\ WF_vars(CommandNext)
    /\ WF_vars(StageNext)
    /\ WF_vars(TransferNext(3))

(* the session on its own: no command runs, goroutines call its methods *)
SessionInit ==
    /\ op = "none"
    /\ block = NoBlock
    /\ options = [ResumeOnError |-> FALSE, CleanOnError |-> FALSE]
    /\ credentials = [h \in {} |-> 0]
    /\ heap = <<>>
    /\ calls = <<>>
    /\ callers = [g \in Callers |-> IdleCaller]
    /\ mu = Unlocked
    /\ cleanups = <<>>
    /\ canceled = FALSE
    /\ env \in SUBSET {"r1"}
    /\ file = NoFile
    /\ runs = <<>>
    /\ resolved = <<>>
    /\ cpc = "start"
    /\ tpc = "idle"
    /\ held = NoResult
    /\ stage = "none"
    /\ spc = "idle"
    /\ idx = 1
    /\ pending = NoResult
    /\ stageOut = <<>>
    /\ work = <<>>
    /\ out = <<>>
    /\ exitCode = -1

SessionNext ==
    \E g \in Callers :
        \/ SessionRLock(g)
        \/ SessionLookup(g)
        \/ SessionPrompt(g)
        \/ SessionLock(g)
        \/ SessionStore(g)
        \/ SessionClearLock(g)
        \/ SessionClear(g)

SpecSession == SessionInit /\ [][SessionNext]_vars

(* the commands on a configuration file, up to the block they work on *)
ConfigInit ==
    /\ op = "none"
    /\ block = NoBlock
    /\ options = [ResumeOnError |-> FALSE, CleanOnError |-> FALSE]
    /\ credentials = [h \in {} |-> 0]
    /\ heap = <<>>
    /\ calls = <<>>
    /\ callers = [g \in Callers |-> IdleCaller]
    /\ mu = Unlocked
    /\ cleanups = <<>>
    /\ canceled = FALSE
    /\ env = {}
    /\ file \in Files
    /\ runs = <<>>
    /\ resolved = <<>>
    /\ cpc = "start"
    /\ tpc = "idle"
    /\ held = NoResult
    /\ stage = "none"
    /\ spc = "idle"
    /\ idx = 1
    /\ pending = NoResult
    /\ stageOut = <<>>
    /\ work = <<>>
    /\ out = <<>>
    /\ exitCode = -1

ConfigNext == RunValidate \/ \E command \in Ops : RunLoad(command)

SpecConfig == ConfigInit /\ [][ConfigNext]_vars

(* the AuthHandler on its own: a goroutine calls GetCredentials *)
AuthInit ==
    /\ op = "none"
    /\ block = NoBlock
    /\ options = [ResumeOnError |-> FALSE, CleanOnError |-> FALSE]
    /\ credentials = [h \in {} |-> 0]
    /\ heap = <<>>
    /\ calls = <<>>
    /\ callers = [g \in Callers |-> IdleCaller]
    /\ mu = Unlocked
    /\ cleanups = <<>>
    /\ canceled = FALSE
    /\ env \in AuthEnvs
    /\ file = NoFile
    /\ runs = <<>>
    /\ resolved = <<>>
    /\ cpc = "start"
    /\ tpc = "idle"
    /\ held = NoResult
    /\ stage = "none"
    /\ spc = "idle"
    /\ idx = 1
    /\ pending = NoResult
    /\ stageOut = <<>>
    /\ work = <<>>
    /\ out = <<>>
    /\ exitCode = -1

AuthNext == AuthCall

SpecAuth == AuthInit /\ [][AuthNext]_vars

(* the earlier ConvertImages(block) with a consumer that ranges over the *)
(* stream                                                                 *)
EarlierInit ==
    /\ op = "none"
    /\ block \in EarlierBlocks
    /\ options \in [ResumeOnError : {FALSE}, CleanOnError : BOOLEAN]
    /\ credentials = [h \in {} |-> 0]
    /\ heap = <<>>
    /\ calls = <<>>
    /\ callers = [g \in Callers |-> IdleCaller]
    /\ mu = Unlocked
    /\ cleanups = <<>>
    /\ canceled = FALSE
    /\ env = {}
    /\ file = NoFile
    /\ runs = <<>>
    /\ resolved = <<>>
    /\ cpc = "consume"
    /\ tpc = "idle"
    /\ held = NoResult
    /\ stage = PhaseConvert
    /\ spc = "validate"
    /\ idx = 1
    /\ pending = NoResult
    /\ stageOut = <<>>
    /\ work = <<>>
    /\ out = <<>>
    /\ exitCode = -1

EarlierNext ==
    \/ EarlierValidate
    \/ EarlierSkip
    \/ EarlierConvert
    \/ EarlierReceive
    \/ EarlierCleanup
    \/ EarlierClose

SpecConvertEarlier == EarlierInit /\ [][EarlierNext]_vars

(* the exclusion decisions of the three stages as functions *)
ExclusionInit ==
    /\ op = "none"
    /\ block \in ExclusionBlocks
    /\ options \in [ResumeOnError : {FALSE}, CleanOnError : BOOLEAN]
    /\ credentials = [h \in {} |-> 0]
    /\ heap = <<>>
    /\ calls = <<>>
    /\ callers = [g \in Callers |-> IdleCaller]
    /\ mu = Unlocked
    /\ cleanups = <<>>
    /\ canceled = FALSE
    /\ env = {}
    /\ file = NoFile
    /\ runs = <<>>
    /\ resolved = <<>>
    /\ cpc = "start"
    /\ tpc = "idle"
    /\ held = NoResult
    /\ stage = "none"
    /\ spc = "idle"
    /\ idx = 1
    /\ pending = NoResult
    /\ stageOut = <<>>
    /\ work = <<>>
    /\ out = <<>>
    /\ exitCode = -1

ExclusionNext ==
    \/ \E st \in {PhaseExport, PhaseConvert, PhaseImport} :
          ExclusionDecide(st)
    \/ ExclusionReorder
    \/ ExclusionResolve

SpecExclusion == ExclusionInit /\ [][ExclusionNext]_vars

----------------------------------------------------------------------------
(* Properties *)

IsTransfer == op = "transfer"

NumMappings == Len(block.ImageMappings)

(* the mappings a stage does not exclude, and their number *)
Kept(st) ==
    { i \in 1..NumMappings :
        ~StageSkips(st, block.ImageMappings[i], block.Exclusions) }

CountPhase(p) == Cardinality({ k \in 1..Len(out) : out[k].Phase = p })

Excluded(st) == (1..NumMappings) \ Kept(st)

CountStage(st) ==
    Cardinality({ k \in 1..Len(stageOut) : stageOut[k].stage = st })

WorkOf(st, i) ==
    Cardinality({ k \in 1..Len(work) :
                    work[k].stage = st /\ work[k].index = i })

PhaseRank(p) ==
    CASE p = NoPhase -> 0
      [] p = PhaseExport -> 1
      [] p = PhaseConvert -> 2
      [] p = PhaseImport -> 3

(* the run state of the transfer, read off the position of its goroutine *)
TransferState ==
    CASE tpc \in {"idle", "validate", "srcCreds", "dstCreds", "sendFinal"} ->
           "VALIDATING"
      [] tpc \in {"recv", "sendStage"} /\ stage = PhaseExport -> "EXPORTING"
      [] tpc \in {"recv", "sendStage"} /\ stage = PhaseConvert -> "CONVERTING"
      [] tpc \in {"recv", "sendStage"} /\ stage = PhaseImport -> "IMPORTING"
      [] tpc = "DONE" -> "DONE"
      [] tpc = "ABORTED" -> "ABORTED"

StateSuccessor(s) ==
    CASE s = "VALIDATING" -> "EXPORTING"
      [] s = "EXPORTING" -> "CONVERTING"
      [] s = "CONVERTING" -> "IMPORTING"
      [] s = "IMPORTING" -> "DONE"
      [] OTHER -> s

PhaseMonotone ==
    \A i, j \in 1..Len(out) :
        i < j => PhaseRank(out[i].Phase) <= PhaseRank(out[j].Phase)

StateAdvances ==
    \/ TransferState' = TransferState
    \/ /\ TransferState \notin {"DONE", "ABORTED"}
       /\ TransferState' \in {StateSuccessor(TransferState), "ABORTED"}

(* C1: in a transfer run the result stream is phase-monotone (no EXPORT   *)
(* result after a CONVERT or IMPORT result, no CONVERT result after an    *)
(* IMPORT result) and the run state only moves VALIDATING -> EXPORTING -> *)
(* CONVERTING -> IMPORTING -> DONE, or to ABORTED, never backwards and    *)
(* never out of DONE or ABORTED.                                          *)
C1_PhaseMonotone ==
    /\ [](IsTransfer => PhaseMonotone)
    /\ [][IsTransfer => StateAdvances]_vars

C1_Witness ==
    /\ IsTransfer
    /\ tpc = "DONE"
    /\ CountPhase(PhaseExport) > 0
    /\ CountPhase(PhaseConvert) > 0
    /\ CountPhase(PhaseImport) > 0

(* C2: in a transfer with resumeOnError=false the first result carrying   *)
(* an error is forwarded to the caller and is the last of the stream:     *)
(* nothing is emitted after it and the stream is closed.                  *)
C2_FirstErrorIsLast ==
    (IsTransfer /\ ~options.ResumeOnError) =>
        /\ \A k \in 1..Len(out) :
              out[k].Error # "nil" => (k = Len(out) /\ tpc = "ABORTED")
        /\ \A k \in 1..Len(stageOut) :
              stageOut[k].result.Error # "nil" =>
                 /\ k = Len(stageOut)
                 /\ \/ tpc = "sendStage" /\ held.Error # "nil"
                    \/ Len(out) = k /\ out[k].Error # "nil"

C2_Witness ==
    /\ IsTransfer
    /\ ~options.ResumeOnError
    /\ tpc = "ABORTED"
    /\ cpc = "done"
    /\ Len(out) = 2
    /\ out[2].Error = "image"
    /\ out[2].Phase = PhaseExport
    /\ Cardinality(Kept(PhaseConvert)) > 0

ValidForTransfer ==
    /\ block.SourceRegistry.Host # ""
    /\ block.DestinationRegistry.Host # ""
    /\ NumMappings > 0

OnePerKeptMapping ==
    \A p \in {PhaseExport, PhaseConvert, PhaseImport} :
        /\ CountPhase(p) = Cardinality(Kept(p))
        /\ \A i \in 1..NumMappings :
              WorkOf(p, i) = IF i \in Kept(p) THEN 1 ELSE 0

(* C3 as stated: in a transfer with resumeOnError=true on a valid block   *)
(* every run that has ended has run all three phases to completion, each  *)
(* phase having emitted exactly one result per mapping it does not        *)
(* exclude.                                                               *)
C3_AsStated ==
    (IsTransfer /\ options.ResumeOnError /\ ValidForTransfer
       /\ tpc \in {"DONE", "ABORTED"}) =>
        (tpc = "DONE" /\ OnePerKeptMapping)

(* C3, amended: in a transfer with resumeOnError=true on a valid block    *)
(* the run is aborted only by a failure to resolve credentials, its only  *)
(* result then; otherwise all three phases run to completion and each     *)
(* has processed every mapping it does not exclude once and emitted one   *)
(* result for it, whatever images failed.                                 *)
C3_ResumeOnePerMapping ==
    (IsTransfer /\ options.ResumeOnError /\ ValidForTransfer) =>
        /\ tpc = "ABORTED" =>
              (Len(out) = 1 /\ out[1].Error = "credentials" /\ work = <<>>)
        /\ tpc = "DONE" => OnePerKeptMapping

C3_Witness ==
    /\ IsTransfer
    /\ options.ResumeOnError
    /\ tpc = "DONE"
    /\ \E k \in 1..Len(out) : out[k].Error = "image" /\ k < Len(out)
    /\ Cardinality(Kept(PhaseExport)) < NumMappings

(* C4: a stage run on a block that is valid for it, whose stream is       *)
(* drained, has emitted exactly N-E results when it closes the stream,    *)
(* N the number of mappings and E the number its exclusion rule matches,  *)
(* whether or not images failed.                                          *)
C4_StageEmitsNMinusE ==
    (spc = "closed" /\ NumMappings > 0 /\
     (IF stage = PhaseExport THEN block.SourceRegistry.Host # ""
      ELSE block.DestinationRegistry.Host # "")) =>
        CountStage(stage) = NumMappings - Cardinality(Excluded(stage))

C4_Witness ==
    /\ ~IsTransfer
    /\ spc = "closed"
    /\ NumMappings = 2
    /\ Cardinality(Kept(stage)) = 2
    /\ Len(out) = 2
    /\ out[1].Error = "image"

(* C5: every stage result the transfer goroutine receives is forwarded    *)
(* to the caller exactly once, in the order received, with the same       *)
(* Error and the tag of the stage that produced it.                       *)
C5_ForwardedOnceInOrder ==
    (IsTransfer /\ Len(stageOut) > 0) =>
        /\ Len(out) = Len(stageOut) - (IF tpc = "sendStage" THEN 1 ELSE 0)
        /\ \A k \in 1..Len(out) :
              /\ out[k].Error = stageOut[k].result.Error
              /\ out[k].Phase = stageOut[k].stage
        /\ tpc = "sendStage" =>
              /\ held.Error = stageOut[Len(stageOut)].result.Error
              /\ held.Phase = stageOut[Len(stageOut)].stage

C5_Witness ==
    /\ IsTransfer
    /\ Len(out) >= 3
    /\ out[1].Error = "image"
    /\ out[2].Error = "nil"
    /\ out[3].Error = "image"

(* C6: a transfer on a block with an empty source host, an empty          *)
(* destination host or no mappings emits exactly one result, with an      *)
(* error, no phase tag and no image fields, and closes the stream; no     *)
(* credentials are resolved and no stage is started.                      *)
C6_InvalidBlockOneResult ==
    (IsTransfer /\ (\/ block.SourceRegistry.Host = ""
                    \/ block.DestinationRegistry.Host = ""
                    \/ NumMappings = 0)) =>
        /\ resolved = <<>>
        /\ DOMAIN credentials = {}
        /\ stage = "none"
        /\ work = <<>>
        /\ tpc # "DONE"
        /\ Len(out) = (IF tpc = "ABORTED" THEN 1 ELSE 0)
        /\ \A k \in 1..Len(out) :
              out[k] = Result(NoPhase, EmptyStr, EmptyStr, EmptyStr,
                              "validation")

C6_Witness ==
    /\ IsTransfer
    /\ block.SourceRegistry.Host # ""
    /\ block.DestinationRegistry.Host = ""
    /\ NumMappings > 0
    /\ cpc = "done"
    /\ Len(out) = 1

(* C7: in a transfer, a failure to resolve the source credentials yields  *)
(* exactly one error result tagged EXPORT, a failure to resolve the       *)
(* destination credentials exactly one error result tagged IMPORT; the    *)
(* stream then closes and no stage is started.                            *)
C7_CredentialErrorTagged ==
    IsTransfer =>
        \A k \in 1..Len(out) :
            out[k].Error = "credentials" =>
                /\ Len(out) = 1
                /\ tpc = "ABORTED"
                /\ stage = "none"
                /\ work = <<>>
                /\ out[k].Phase = (IF Len(resolved) = 1 THEN PhaseExport
                                   ELSE PhaseImport)

(* C8: a transfer that is not aborted has run the convert phase between   *)
(* the export and the import phase: when it is done the stream holds one  *)
(* CONVERT result per mapping the convert stage does not exclude, after   *)
(* every EXPORT result and before every IMPORT result.                    *)
C8_ConvertBetween ==
    (IsTransfer /\ tpc = "DONE") =>
        /\ CountPhase(PhaseConvert) = Cardinality(Kept(PhaseConvert))
        /\ \E a, b \in 0..Len(out) :
              /\ a <= b
              /\ \A k \in 1..Len(out) :
                    out[k].Phase = (IF k <= a THEN PhaseExport
                                    ELSE IF k <= b THEN PhaseConvert
                                    ELSE PhaseImport)

InvalidFor(st) ==
    \/ NumMappings = 0
    \/ IF st = PhaseExport THEN block.SourceRegistry.Host = ""
       ELSE block.DestinationRegistry.Host = ""

C10_ReadsWhatWasWritten ==
    IsTransfer =>
        \A k \in 1..Len(work) :
            LET Earlier(stages) ==
                  { j \in 1..(k - 1) : /\ work[j].index = work[k].index
                                       /\ work[j].stage \in stages }
            IN  /\ work[k].stage = PhaseConvert =>
                      \A j \in Earlier({PhaseExport}) :
                          work[j].localWrite = work[k].localRead
                /\ work[k].stage = PhaseImport =>
                      (Earlier({PhaseExport, PhaseConvert}) # {} =>
                          \E j \in Earlier({PhaseExport, PhaseConvert}) :
                              work[j].localWrite = work[k].localRead)

IsStageCommand == op \in {"export", "convert", "import"}

(* C11: when the export, import or convert command runs without --resume  *)
(* the stage is aborted at the first failing image: no mapping after the  *)
(* failing one is processed or reported; with --resume the remaining      *)
(* mappings are processed.                                                *)
C11_StageAbortsWithoutResume ==
    IsStageCommand =>
        /\ ~options.ResumeOnError =>
              /\ \A k \in 1..Len(work) : work[k].failed => k = Len(work)
              /\ \A k \in 1..Len(out) : out[k].Error # "nil" => k = Len(out)
        /\ (options.ResumeOnError /\ cpc = "done" /\ stage # "none"
              /\ ~InvalidFor(stage)) =>
              \A i \in Kept(stage) : WorkOf(stage, i) = 1

(* the per-image results that carried an error and were sent by a stage *)
FailedSends == { k \in 1..Len(stageOut) :
                   stageOut[k].result.Error \in {"image"} }

(* C12: when cleanOnError is set, every failing per-image result a stage  *)
(* has sent is followed by one attempt to delete that mapping's partial   *)
(* image (so there are as many attempts as failing results); when it is   *)
(* not set, no deletion is attempted.                                     *)
C12_CleanupAfterFailure ==
    /\ (options.CleanOnError /\ cpc = "done") =>
          Len(cleanups) = Cardinality(FailedSends)
    /\ ~options.CleanOnError => cleanups = <<>>

(* the handler got as far as ranging over the result stream *)
StreamOpened == op = "transfer" \/ stage # "none"

(* C14: a command run that ranged over its result stream exits with a     *)
(* non-zero status exactly when a result it received carried an error, a  *)
(* transfer's single validation or credential error result included.      *)
C14_ExitNonZeroIffErrorResult ==
    (cpc = "done" /\ StreamOpened) =>
        (exitCode # 0 <=> \E k \in 1..Len(out) : out[k].Error # "nil")

(* the mappings whose export was tried and failed *)
ExportFailed ==
    { i \in 1..NumMappings :
        \E k \in 1..Len(work) : /\ work[k].stage = PhaseExport
                                /\ work[k].index = i
                                /\ work[k].failed }

(* C20 as stated: in a transfer with resumeOnError=true the CONVERT and   *)
(* IMPORT phases run against the mappings whose export did not fail, so a *)
(* mapping whose export failed is not converted and not imported.         *)
C20_AsStated ==
    (IsTransfer /\ options.ResumeOnError) =>
        \A i \in ExportFailed :
            WorkOf(PhaseConvert, i) = 0 /\ WorkOf(PhaseImport, i) = 0

(* C20, amended: in a transfer with resumeOnError=true in which an export *)
(* failed, the run is not aborted; when it is done it has emitted one     *)
(* EXPORT result per mapping the export does not exclude, all of them     *)
(* before the first CONVERT or IMPORT result, and the CONVERT and IMPORT  *)
(* phases have processed once every mapping they do not exclude, the      *)
(* mappings whose export failed among them.                               *)
C20_ResumeAfterExportFailure ==
    (IsTransfer /\ options.ResumeOnError /\ ExportFailed # {}) =>
        /\ tpc # "ABORTED"
        /\ \A j, k \in 1..Len(out) :
              (out[j].Phase = PhaseExport /\ out[k].Phase # PhaseExport)
                  => j < k
        /\ tpc = "DONE" =>
              /\ CountPhase(PhaseExport) = Cardinality(Kept(PhaseExport))
              /\ \A p \in {PhaseConvert, PhaseImport} :
                    \A i \in Kept(p) : WorkOf(p, i) = 1

C20_Witness ==
    /\ IsTransfer
    /\ options.ResumeOnError
    /\ tpc = "DONE"
    /\ NumMappings > 1
    /\ \E i \in ExportFailed :
          WorkOf(PhaseConvert, i) = 1 /\ WorkOf(PhaseImport, i) = 1
    /\ ExportFailed # Kept(PhaseExport)

(* the step is the return of a call of Clear *)
ClearStep ==
    /\ Len(calls') = Len(calls) + 1
    /\ calls'[Len(calls')].method = "Clear"

(* call k is a resolve of host h that returned credentials *)
Resolved(k, h) ==
    /\ calls[k].method = "GetCredentials"
    /\ calls[k].host = h
    /\ calls[k].err = "nil"

NoClearBetween(j, k) ==
    \A m \in (j + 1)..(k - 1) : calls[m].method # "Clear"

(* C15 as stated: a resolve that finds the host cached returns what the   *)
(* earlier successful resolves of the host returned since the last        *)
(* clear(), and only clear() removes or replaces a cached entry.          *)
C15_AsStated ==
    /\ [](\A j, k \in 1..Len(calls) :
            (j < k /\ calls[k].hit /\ Resolved(j, calls[k].host)
                   /\ NoClearBetween(j, k))
                => calls[k].creds = calls[j].creds)
    /\ [][\A h \in DOMAIN credentials :
            \/ ClearStep
            \/ h \in DOMAIN credentials' /\ credentials'[h] = credentials[h]
         ]_vars

(* C15, amended: a resolve of a cached host returns the cached            *)
(* credentials, those of the latest resolve of the host that returned     *)
(* any, without environment lookup or prompt; the structs returned are    *)
(* never changed; a cached entry is removed only by clear() and replaced  *)
(* only by the store of a concurrent resolve of the same host that had    *)
(* missed.                                                                *)
C15_CachedUntilClear ==
    /\ [](\A k \in 1..Len(calls) : calls[k].hit =>
            /\ ~calls[k].prompted /\ ~calls[k].envRead
            /\ calls[k].value = heap[calls[k].creds]
            /\ \E j \in 1..(k - 1) :
                  /\ Resolved(j, calls[k].host)
                  /\ NoClearBetween(j, k)
                  /\ \A m \in (j + 1)..(k - 1) : ~Resolved(m, calls[k].host)
                  /\ calls[k].creds = calls[j].creds)
    /\ [][/\ \A g \in Callers :
              (callers[g].pc = "rlocked" /\ callers'[g].pc = "prompt")
                  => callers'[g].host \notin DOMAIN credentials
          /\ \A q \in DOMAIN heap : q \in DOMAIN heap' /\ heap'[q] = heap[q]
          /\ \A h \in DOMAIN credentials :
              \/ ClearStep
              \/ h \in DOMAIN credentials' /\ credentials'[h] = credentials[h]
              \/ \E g \in Callers :
                    /\ callers[g].pc = "locked" /\ callers[g].host = h
                    /\ callers'[g].pc = "idle"
                    /\ h \in DOMAIN credentials'
                    /\ credentials'[h] = callers[g].creds
         ]_vars

C15_Witness ==
    \E i, j, k \in 1..Len(calls) :
        /\ i < j /\ j < k
        /\ Resolved(i, "r1") /\ ~calls[i].hit
        /\ Resolved(j, "r1") /\ ~calls[j].hit
        /\ calls[k].hit /\ calls[k].host = "r1"
        /\ calls[k].creds = calls[j].creds
        /\ calls[k].creds # calls[i].creds

(* C16: on a cache miss the session looks up the environment pair of the  *)
(* host before it prompts: for a host whose two variables are set the     *)
(* call returns the credentials of the environment with no prompt, and    *)
(* the user is prompted only for a host whose pair is not set.            *)
C16_EnvBeforePrompt ==
    \A k \in 1..Len(calls) :
        (calls[k].method = "GetCredentials" /\ ~calls[k].hit) =>
            IF calls[k].host \in env
            THEN ~calls[k].prompted /\ calls[k].envRead
                 /\ calls[k].err = "nil"
            ELSE calls[k].prompted

(* C17: clear() empties the cache, so that the resolves after it are      *)
(* misses until one of them has stored an entry again, and it changes no  *)
(* struct: every Credentials value a call returned is still what it was,  *)
(* and the goroutines in a call keep what they hold.                      *)
C17_ClearEmptiesCacheOnly ==
    /\ [](\A k \in 1..Len(calls) : calls[k].method = "Clear" =>
            /\ (\A m \in (k + 1)..Len(calls) : calls[m].err # "nil")
                  => \A h \in SessionHosts : ~CacheHit(credentials, h)
            /\ \A m \in (k + 1)..Len(calls) :
                  (\A n \in (k + 1)..(m - 1) : calls[n].err # "nil")
                      => ~calls[m].hit)
    /\ [](\A k \in 1..Len(calls) :
            Resolved(k, calls[k].host)
                => heap[calls[k].creds] = calls[k].value)
    /\ [][ClearStep =>
            /\ DOMAIN credentials' = {}
            /\ heap' = heap
            /\ \A g \in Callers :
                  callers[g].pc # "clearing" => callers'[g] = callers[g]]_vars

C17_Witness ==
    \E j, k, m \in 1..Len(calls) :
        /\ j < k /\ k < m
        /\ Resolved(j, "r1")
        /\ calls[k].method = "Clear"
        /\ Resolved(m, "r1") /\ calls[m].prompted
        /\ calls[m].value # calls[j].value
        /\ heap[calls[j].creds] = calls[j].value

(* C13: a run that ends with a configuration error (the file cannot be    *)
(* parsed, a registry URL is invalid, the block count is not one, a       *)
(* protocol is missing) exits with code 2; code 1 is not used for it.     *)
C13_ConfigErrorExitsTwo ==
    \A k \in 1..Len(runs) : runs[k].err # "nil" => runs[k].exit = 2

(* the file holds exactly one block, h *)
OnlyHeader(h) == file.readable /\ file.headers = {h}

(* C18: validate reports success for a file that holds exactly one block  *)
(* whose source URL and destination URL are written with http:// or       *)
(* https:// before a host, and two validations of a file give the same    *)
(* outcome.  (A block without destination URL is the case of C19.)        *)
C18_ValidateAcceptsProtocolUrls ==
    /\ \A k \in 1..Len(runs) :
          \A h \in HeaderPool :
              (/\ runs[k].command = "validate"
               /\ OnlyHeader(h)
               /\ HasProtocol(h.source)
               /\ parseRegistryURL(h.source).Host # <<>>
               /\ HasProtocol(h.destination)
               /\ parseRegistryURL(h.destination).Host # <<>>)
                  => runs[k].err = "nil"
    /\ \A j, k \in 1..Len(runs) :
          (runs[j].command = "validate" /\ runs[k].command = "validate")
              => runs[j].err = runs[k].err

(* C19: a file whose only block header leaves the destination empty is    *)
(* accepted by export, and one that leaves the source empty by import:    *)
(* the block is parsed with an empty Host on that side.                   *)
C19_EmptySideAccepted ==
    \A k \in 1..Len(runs) :
        \A h \in HeaderPool :
            (/\ OnlyHeader(h)
             /\ \/ /\ runs[k].command = "export"
                   /\ h.destination = <<>>
                   /\ parseRegistryURL(h.source).Host # <<>>
                \/ /\ runs[k].command = "import"
                   /\ h.source = <<>>
                   /\ parseRegistryURL(h.destination).Host # <<>>)
                => /\ runs[k].err = "nil"
                   /\ \A b \in runs[k].config.Blocks :
                         IF runs[k].command = "export"
                         THEN b.DestinationRegistry.Host = <<>>
                         ELSE b.SourceRegistry.Host = <<>>

(* the work a stage did on an image after the context was done *)
WorkAfterCancel == { k \in 1..Len(work) : work[k].ctxDone }

(* C21: once the context is done during a stage, the stage reports an     *)
(* error for the image in progress and attempts no remaining mapping: at  *)
(* most one image is worked on after the cancellation, and its result     *)
(* carries an error.                                                      *)
C21_NoWorkAfterCancel ==
    /\ Cardinality(WorkAfterCancel) <= 1
    /\ \A k \in WorkAfterCancel : work[k].failed

(* C22: when a command that ranged over its stream is done, every printed *)
(* group has total = successful + failed, and every result received is    *)
(* counted in a printed group, so that the printed totals add up to the   *)
(* number of results received.                                            *)
C22_SummaryCountsEveryResult ==
    (cpc = "done" /\ StreamOpened) =>
        /\ \A p \in PrintedGroups(op, out) :
              Counters(out, p).total =
                  Counters(out, p).success + Counters(out, p).failures
        /\ \A k \in 1..Len(out) : out[k].Phase \in PrintedGroups(op, out)

(* the per-image results sent on the stage channels, in order *)
PerImageOut == SelectSeq(stageOut, LAMBDA e : e.result.Error # "validation")

(* C23: a stage processes the mappings one at a time in the order of      *)
(* block.ImageMappings: the work events of a stage have increasing        *)
(* indices, the k-th per-image result sent is the result of the k-th      *)
(* work event, for the mapping at its index, and a work event is          *)
(* followed by the send of its result before the next one begins.         *)
C23_OneAtATimeInOrder ==
    /\ \A k, l \in 1..Len(work) :
          (k < l /\ work[k].stage = work[l].stage)
              => work[k].index < work[l].index
    /\ Len(work) = Len(PerImageOut)
          + (IF spc = "send" /\ pending.Error # "validation" THEN 1 ELSE 0)
    /\ \A k \in 1..Len(PerImageOut) :
          /\ PerImageOut[k].stage = work[k].stage
          /\ \E ok, c \in BOOLEAN :
                PerImageOut[k].result =
                    StageSingleImage(work[k].stage,
                                     block.ImageMappings[work[k].index], ok, c)

C23_Witness ==
    /\ spc = "closed"
    /\ \E k, l \in 1..Len(PerImageOut) :
          /\ k < l
          /\ work[k].stage = work[l].stage
          /\ block.ImageMappings[work[k].index]
                # block.ImageMappings[work[l].index]

(* C24: when a transfer without resumeOnError is aborted by a failing     *)
(* result, the stage that produced it does no work for a later mapping    *)
(* and does not stay blocked on the send of a result nobody receives.     *)
C24_StageStopsWhenTransferAborts ==
    (IsTransfer /\ ~options.ResumeOnError /\ tpc = "ABORTED"
        /\ stage # "none") =>
        /\ \A k \in 1..Len(work) : work[k].failed => k = Len(work)
        /\ spc # "send"

(* sub occurs in s: s is some text, then sub, then some text *)
IsSubstring(sub, s) ==
    \E a, b \in 0..Len(s) : a <= b /\ SubSeq(s, a + 1, b) = sub

(* some exclusion pattern of the block occurs in the text *)
SomePatternIn(text) ==
    \E e \in 1..Len(block.Exclusions) : IsSubstring(block.Exclusions[e], text)

(* the stage st ran on a block valid for it and closed its stream *)
StageDone(st) == stage = st /\ spc = "closed" /\ ~InvalidFor(st)

(* C25: the export stage skips a mapping exactly when some exclusion      *)
(* pattern occurs in mapping.Source, the import stage exactly when some   *)
(* pattern occurs in mapping.Destination; a skipped mapping is never      *)
(* worked on and gets no result, every other mapping is worked on once.   *)
C25_SubstringExclusion ==
    /\ \A i \in 1..NumMappings :
          /\ SomePatternIn(block.ImageMappings[i].Source)
                => WorkOf(PhaseExport, i) = 0
          /\ SomePatternIn(block.ImageMappings[i].Destination)
                => WorkOf(PhaseImport, i) = 0
    /\ StageDone(PhaseExport) =>
          /\ \A i \in 1..NumMappings :
                ~SomePatternIn(block.ImageMappings[i].Source)
                    => WorkOf(PhaseExport, i) = 1
          /\ CountStage(PhaseExport) =
                Cardinality({ i \in 1..NumMappings :
                    ~SomePatternIn(block.ImageMappings[i].Source) })
    /\ StageDone(PhaseImport) =>
          /\ \A i \in 1..NumMappings :
                ~SomePatternIn(block.ImageMappings[i].Destination)
                    => WorkOf(PhaseImport, i) = 1
          /\ CountStage(PhaseImport) =
                Cardinality({ i \in 1..NumMappings :
                    ~SomePatternIn(block.ImageMappings[i].Destination) })

(* a block where the two rules differ from each other and from an exact  *)
(* match: the pattern b occurs in the source ab and equals the            *)
(* destination b of the other mapping                                     *)
C25_Witness ==
    /\ StageDone(PhaseImport)
    /\ block.Exclusions = << <<"b">> >>
    /\ NumMappings = 2
    /\ block.ImageMappings[1].Source = <<"a", "b">>
    /\ block.ImageMappings[2].Source = <<"a">>
    /\ WorkOf(PhaseImport, 1) = 0 /\ WorkOf(PhaseImport, 2) = 0
    /\ WorkOf(PhaseExport, 1) = 0 /\ WorkOf(PhaseExport, 2) = 1

(* pre is how s begins *)
IsPrefix(pre, s) == \E n \in 0..Len(s) : SubSeq(s, 1, n) = pre

(* the text of an exclusion entry after its first character *)
AfterMarker(entry) == SubSeq(entry, 2, Len(entry))

Marked(entry) == entry # <<>> /\ entry[1] = "!"

(* C26 as stated: the convert stage skips a mapping exactly when, for     *)
(* some exclusion entry that begins with '!', the text after the marker   *)
(* is a prefix of mapping.Source.                                         *)
C26_AsStated ==
    StageDone(PhaseConvert) =>
        \A i \in 1..NumMappings :
            WorkOf(PhaseConvert, i) = 0 <=>
                \E e \in 1..Len(block.Exclusions) :
                    /\ Marked(block.Exclusions[e])
                    /\ IsPrefix(AfterMarker(block.Exclusions[e]),
                                block.ImageMappings[i].Source)

(* C26, amended: the convert stage skips a mapping exactly when, for some *)
(* exclusion entry that begins with '!', the text after the marker occurs *)
(* anywhere in mapping.Source; entries without the marker exclude         *)
(* nothing; a mapping that is not skipped is worked on once.              *)
C26_MarkedSubstringExclusion ==
    /\ \A i \in 1..NumMappings :
          (\E e \in 1..Len(block.Exclusions) :
              /\ Marked(block.Exclusions[e])
              /\ IsSubstring(AfterMarker(block.Exclusions[e]),
                             block.ImageMappings[i].Source))
              => WorkOf(PhaseConvert, i) = 0
    /\ StageDone(PhaseConvert) =>
          \A i \in 1..NumMappings :
              (~\E e \in 1..Len(block.Exclusions) :
                  /\ Marked(block.Exclusions[e])
                  /\ IsSubstring(AfterMarker(block.Exclusions[e]),
                                 block.ImageMappings[i].Source))
                  => WorkOf(PhaseConvert, i) = 1

C26_Witness ==
    /\ StageDone(PhaseConvert)
    /\ block.Exclusions = << <<"!", "b">> >>
    /\ NumMappings = 2
    /\ block.ImageMappings[1].Source = <<"a", "b">>
    /\ block.ImageMappings[2].Source = <<"a">>
    /\ WorkOf(PhaseConvert, 1) = 0
    /\ WorkOf(PhaseConvert, 2) = 1

(* C27: in a transfer, a mapping that the convert or the import phase     *)
(* works on was worked on by the export phase earlier in the run: a later *)
(* phase never processes a mapping the export phase skipped as excluded.  *)
C27_LaterPhasesOnlyExported ==
    IsTransfer =>
        \A k \in 1..Len(work) :
            work[k].stage \in {PhaseConvert, PhaseImport} =>
                \E j \in 1..(k - 1) :
                    /\ work[j].stage = PhaseExport
                    /\ work[j].index = work[k].index

(* the calls that wrote the cache entry of host h or removed it *)
WritesOf(h) ==
    { k \in 1..Len(calls) :
        calls[k].method = "Clear" \/ (Resolved(k, h) /\ ~calls[k].hit) }

(* C28: resolution is not deduplicated: every resolve that missed prompts *)
(* on its own and returns the struct of its own prompt.  The cache map is *)
(* read only under the read lock and written only under the write lock,   *)
(* which excludes every other holder.  The entry of a host is the one the *)
(* last store for the host wrote, if no clear() came after it.            *)
C28_NoDedupLastWriteWins ==
    /\ [](/\ mu.writer # "none" => mu.readers = {}
          /\ \A g \in Callers :
                /\ callers[g].pc = "rlocked" <=> g \in mu.readers
                /\ callers[g].pc \in {"locked", "clearing"} <=> mu.writer = g)
    /\ [](\A k \in 1..Len(calls) :
            (calls[k].method = "GetCredentials" /\ ~calls[k].hit) =>
                /\ calls[k].prompted
                /\ calls[k].err = "nil" =>
                      \A j \in 1..(k - 1) : calls[j].creds # calls[k].creds)
    /\ [](\A h \in SessionHosts :
            IF WritesOf(h) # {}
               /\ calls[CHOOSE k \in WritesOf(h) :
                          \A j \in WritesOf(h) : j <= k].method # "Clear"
            THEN /\ h \in DOMAIN credentials
                 /\ credentials[h] =
                        calls[CHOOSE k \in WritesOf(h) :
                                \A j \in WritesOf(h) : j <= k].creds
            ELSE h \notin DOMAIN credentials)
    /\ [][/\ credentials' # credentials =>
                \E g \in Callers : /\ mu.writer = g
                                    /\ mu.readers = {}
                                    /\ callers'[g].pc = "idle"
          /\ \A g \in Callers :
                (callers[g].pc = "rlocked" /\ callers'[g].pc # "rlocked")
                    => (g \in mu.readers /\ mu.writer = "none")
         ]_vars

C28_Witness ==
    /\ \A g \in Callers : callers[g].pc = "idle"
    /\ \E j, k \in 1..Len(calls) :
          /\ j < k
          /\ Resolved(j, "r1") /\ ~calls[j].hit /\ calls[j].prompted
          /\ Resolved(k, "r1") /\ ~calls[k].hit /\ calls[k].prompted
          /\ NoClearBetween(j, k)
          /\ calls[j].value # calls[k].value
          /\ credentials["r1"] = calls[k].creds
          /\ DOMAIN credentials = {"r1"}

(* C29: every Credentials struct a GetCredentials call returned, and every *)
(* struct the cache points to, has Auth equal to the base64 encoding of   *)
(* its own Username:Password (so it is never empty)                       *)
C29_AuthIsEncodingOfPair ==
    /\ \A k \in 1..Len(calls) :
          (calls[k].method = "GetCredentials" /\ calls[k].err = "nil") =>
              calls[k].value.Auth =
                  EncodeToString(calls[k].value.Username,
                                 calls[k].value.Password)
    /\ \A h \in DOMAIN credentials :
          heap[credentials[h]].Auth =
              EncodeToString(heap[credentials[h]].Username,
                             heap[credentials[h]].Password)

(* C30: at most one result per stream is produced and not yet received.   *)
(* A stage holds a result exactly while it is at its send, and begins     *)
(* the work on a mapping only when every result it produced has been      *)
(* received; the transfer holds a result exactly while it is at its own   *)
(* send, receives a stage result only when it holds none, and every       *)
(* stage result it received has been passed on except the one it holds.   *)
C30_OneResultInFlight ==
    /\ [](/\ pending # NoResult <=> spc = "send"
          /\ held # NoResult <=> tpc \in {"sendStage", "sendFinal"}
          /\ Len(work) - Len(PerImageOut) \in {0, 1}
          /\ op # "transfer" => Len(out) = Len(stageOut)
          /\ (op = "transfer" /\ stageOut # <<>>) =>
                Len(stageOut) =
                    Len(out) + (IF tpc = "sendStage" THEN 1 ELSE 0))
    /\ [][/\ work' # work =>
                /\ pending = NoResult
                /\ Len(work) = Len(PerImageOut)
                /\ pending' # NoResult
          /\ stageOut' # stageOut =>
                /\ pending # NoResult /\ pending' = NoResult
                /\ stageOut' =
                      Append(stageOut, [stage |-> stage, result |-> pending])
                /\ op = "transfer" =>
                      (held = NoResult /\ held' # NoResult /\ out' = out)
                /\ op # "transfer" => out' = Append(out, pending)
          /\ (op = "transfer" /\ out' # out) =>
                (held # NoResult /\ out' = Append(out, held)
                 /\ held' = NoResult /\ stageOut' = stageOut)
         ]_vars

C30_Witness ==
    /\ op = "transfer"
    /\ tpc = "sendStage" /\ held # NoResult
    /\ spc = "send" /\ pending # NoResult
    /\ Len(work) = 2 /\ Len(stageOut) = 1 /\ out = <<>>

(* C31: no step of a stage, of a transfer or of a command handler changes *)
(* the Block of the run: the registries, the mappings and the exclusions  *)
(* are only read, whether the run completes, fails validation or aborts.  *)
C31_BlockNeverModified ==
    [][/\ block'.SourceRegistry = block.SourceRegistry
       /\ block'.DestinationRegistry = block.DestinationRegistry
       /\ block'.ImageMappings = block.ImageMappings
       /\ block'.Exclusions = block.Exclusions]_vars

C31_Witness ==
    /\ op = "transfer" /\ cpc = "done" /\ tpc = "ABORTED"
    /\ Len(work) >= 1
    /\ Len(block.ImageMappings) = 2
    /\ \E k \in 1..Len(block.ImageMappings) :
          StageSkips(PhaseExport, block.ImageMappings[k], block.Exclusions)

(* a host as the specification describes it: no protocol in front, no     *)
(* "/" at either end, and parsing it again gives it back                  *)
NormalizedHost(host) ==
    /\ ~HasProtocol(host)
    /\ host # <<>> => (Head(host) # "/" /\ host[Len(host)] # "/")
    /\ parseRegistryURL(host).Host = host

(* C32: the hosts of every block ParseConfig returned, made by            *)
(* parseRegistryURL from the non-blank URLs of the file, are normalized.  *)
C32_HostIsNormalized ==
    \A k \in 1..Len(runs) :
        runs[k].config.err = "nil" =>
            \A b \in runs[k].config.Blocks :
                /\ NormalizedHost(b.SourceRegistry.Host)
                /\ NormalizedHost(b.DestinationRegistry.Host)

(* the prefix of the variable names as the claim states it: the host      *)
(* without its protocol, in upper case, with "." "/" "-" turned into "_"  *)
StatedEnvPrefix(registryURL) ==
    LET host == ToUpper(TrimPrefix(TrimPrefix(registryURL, HttpsPrefix),
                                   HttpPrefix))
    IN  [i \in 1..Len(host) |->
            IF host[i] \in {".", "/", "-"} THEN "_" ELSE host[i]]

(* C33: a resolve that misses the cache looks up the two variables named  *)
(* by the stated prefix with _USERNAME and _PASSWORD: it returns their    *)
(* values when both are non-empty and prompts otherwise, and the names    *)
(* are the same for a host written with and without its protocol.         *)
C33_EnvNamesFromHost ==
    /\ \A k \in 1..Len(calls) :
          (calls[k].method = "GetCredentials" /\ ~calls[k].hit) =>
              LET n == StatedEnvPrefix(calls[k].host)
                  username == Getenv(env, n \o UsernameSuffix)
                  password == Getenv(env, n \o PasswordSuffix)
              IN  IF username # "" /\ password # ""
                  THEN /\ ~calls[k].prompted
                       /\ calls[k].err = "nil"
                       /\ calls[k].value.Username = username
                       /\ calls[k].value.Password = password
                  ELSE calls[k].prompted
    /\ \A j, k \in 1..Len(calls) :
          StatedEnvPrefix(calls[j].host) = StatedEnvPrefix(calls[k].host)
              => EnvPrefix(calls[j].host) = EnvPrefix(calls[k].host)

(* C34: a cleanup, whether its deletion succeeds or fails, sends no       *)
(* result and changes none, and the loop goes on with the next mapping:   *)
(* when the stream is closed every mapping that is not excluded was       *)
(* worked on, and the results received, and so the failure of the run,    *)
(* are those of the work alone.                                           *)
C34_CleanupFailureIsSilent ==
    /\ [][cleanups' # cleanups =>
            /\ stageOut' = stageOut /\ out' = out /\ pending' = pending
            /\ work' = work
            /\ spc' = "loop" /\ idx' = idx + 1]_vars
    /\ []((spc = "closed" /\ EarlierValidateConvertBlock(block) = "nil") =>
            /\ { work[k].index : k \in 1..Len(work) } =
                  { i \in 1..Len(block.ImageMappings) :
                      ~EarlierIsExcluded(block.ImageMappings[i].Source,
                                         block.Exclusions) }
            /\ Len(out) = Len(work)
            /\ \A k \in 1..Len(out) :
                  (out[k].Error # "nil") = work[k].failed)

C34_Witness ==
    /\ spc = "closed"
    /\ Len(cleanups) >= 1
    /\ cleanups[1].tried /\ ~cleanups[1].deleted
    /\ Len(out) = 2
    /\ out[1].Error # "nil" /\ out[2].Error = "nil"

(* the validation the operation of a command applies to its block *)
OperationValidation(o, b) ==
    CASE o = "export" -> validateExportBlock(b)
      [] o = "import" -> validateImportBlock(b)
      [] o = "transfer" -> validateTransferBlock(b)
      [] OTHER -> "nil"

(* C35: in an export, an import or a transfer on a block that fails the   *)
(* operation's validation, the session is never asked for credentials:    *)
(* no lookup and no prompt happens.                                       *)
C35_ValidationBeforeCredentials ==
    OperationValidation(op, block) # "nil" =>
        (calls = <<>> /\ resolved = <<>>)

(* C36: a transfer on a valid block resolves the source host, then the    *)
(* destination host, and starts the export stage only when both calls     *)
(* returned credentials; with equal hosts the second call is a cache hit  *)
(* and at most one call of the run prompted.                              *)
C36_SourceThenDestinationThenExport ==
    (op = "transfer" /\ validateTransferBlock(block) = "nil") =>
        /\ Len(calls) <= 2 /\ Len(resolved) = Len(calls)
        /\ \A k \in 1..Len(calls) : calls[k].method = "GetCredentials"
        /\ Len(calls) >= 1 => calls[1].host = block.SourceRegistry.Host
        /\ Len(calls) = 2 =>
              /\ calls[1].err = "nil"
              /\ calls[2].host = block.DestinationRegistry.Host
        /\ (stage # "none" \/ work # <<>> \/ stageOut # <<>>) =>
              (Len(calls) = 2 /\ calls[1].err = "nil" /\ calls[2].err = "nil")
        /\ block.SourceRegistry.Host = block.DestinationRegistry.Host =>
              /\ Len(calls) = 2 =>
                    (calls[2].hit /\ ~calls[2].prompted
                     /\ calls[2].creds = calls[1].creds)
              /\ Cardinality({ k \in 1..Len(calls) : calls[k].prompted })
                    <= 1

C36_Witness ==
    /\ op = "transfer" /\ validateTransferBlock(block) = "nil"
    /\ block.SourceRegistry.Host = block.DestinationRegistry.Host
    /\ Len(calls) = 2
    /\ calls[1].prompted /\ calls[2].hit
    /\ stage = PhaseExport /\ work # <<>>

(* C37: the stream of a transfer is closed in the end (the goroutine of   *)
(* TransferImages returns, after validation failure, credential failure,  *)
(* abort or completion); once closed it stays closed and nothing more is  *)
(* received from it.  The stream of a stage that was started is closed    *)
(* in the end unless the transfer that consumes it aborted, and nothing   *)
(* is sent on a closed stage stream.                                      *)
C37_StreamsEventuallyClosed ==
    /\ [](op = "transfer" => <>(tpc \in {"DONE", "ABORTED"}))
    /\ [][(tpc = "DONE" \/ tpc = "ABORTED")
              => (tpc' = tpc /\ out' = out)]_vars
    /\ \A st \in {PhaseExport, PhaseConvert, PhaseImport} :
          [](stage = st => <>((stage = st /\ spc = "closed")
                              \/ tpc = "ABORTED"))
    /\ [][spc = "closed" => (stageOut' = stageOut /\ pending' = pending)]_vars

C37_Witness ==
    /\ op = "transfer" /\ tpc = "DONE" /\ cpc = "done"
    /\ stage = PhaseImport /\ spc = "closed"
    /\ Len(out) >= 3

(* the call k is a GetCredentials(h) that returned an error *)
FailedResolve(k, h) ==
    /\ calls[k].method = "GetCredentials"
    /\ calls[k].host = h
    /\ calls[k].err # "nil"

(* C38: a resolve that fails because the prompt cannot be read returns    *)
(* no credentials and leaves the cache and the structs as they were; the  *)
(* cache never holds an entry without a struct, and a later resolve of    *)
(* the host is a hit only if a successful resolve stored the host in      *)
(* between or before: otherwise it prompts again.                         *)
C38_FailedResolveLeavesCache ==
    /\ [][(Len(calls') = Len(calls) + 1
           /\ calls'[Len(calls')].method = "GetCredentials"
           /\ calls'[Len(calls')].err # "nil") =>
              /\ credentials' = credentials
              /\ heap' = heap
              /\ calls'[Len(calls')].creds = 0
              /\ calls'[Len(calls')].prompted]_vars
    /\ [](\A h \in DOMAIN credentials : credentials[h] \in DOMAIN heap)
    /\ [](\A k, j \in 1..Len(calls) :
            (/\ k < j
             /\ FailedResolve(k, calls[k].host)
             /\ calls[j].method = "GetCredentials"
             /\ calls[j].host = calls[k].host
             /\ \A m \in 1..(j - 1) :
                    ~(Resolved(m, calls[k].host) /\ ~calls[m].hit))
                => (~calls[j].hit /\ calls[j].prompted))

C38_Witness ==
    /\ \A g \in Callers : callers[g].pc = "idle"
    /\ Len(calls) = 3
    /\ Resolved(1, "r2") /\ FailedResolve(2, "r1") /\ Resolved(3, "r1")
    /\ ~calls[3].hit /\ calls[3].prompted
    /\ DOMAIN credentials = {"r1", "r2"}
    /\ credentials["r2"] = calls[1].creds

(* the empty pattern of a stage: "" for export and import, the marker     *)
(* alone for convert                                                      *)
EmptyPattern(st) == IF st = PhaseConvert THEN <<"!">> ELSE EmptyStr

HasEmptyPattern(st, b) ==
    \E i \in 1..Len(b.Exclusions) : b.Exclusions[i] = EmptyPattern(st)

(* C39: a stage whose block lists the stage's empty pattern works on no   *)
(* mapping and sends no per-image result; run by its own command on a     *)
(* block that passes validation it sends nothing at all, and the command  *)
(* ends with status 0.                                                    *)
C39_EmptyPatternSkipsAll ==
    /\ \A k \in 1..Len(work) : ~HasEmptyPattern(work[k].stage, block)
    /\ \A k \in 1..Len(PerImageOut) :
          ~HasEmptyPattern(PerImageOut[k].stage, block)
    /\ (/\ IsStageCommand /\ stage # "none"
        /\ validateStageBlock(stage, block) = "nil"
        /\ HasEmptyPattern(stage, block)) =>
            /\ stageOut = <<>> /\ out = <<>>
            /\ spc = "closed" => idx = Len(block.ImageMappings) + 1
            /\ cpc = "done" => (spc = "closed" /\ exitCode = 0)

C39_Witness ==
    /\ op = "import" /\ stage = PhaseImport
    /\ validateStageBlock(stage, block) = "nil"
    /\ HasEmptyPattern(stage, block)
    /\ Len(block.ImageMappings) = 2
    /\ cpc = "done" /\ spc = "closed" /\ out = <<>> /\ exitCode = 0

(* the set of the patterns of a list *)
PatternSet(exclusions) == { exclusions[i] : i \in 1..Len(exclusions) }

====
